----------------------- MODULE ExecutionHandoffProofs -----------------------
(* The theorems of ExecutionHandoff.                                        *)
EXTENDS ExecutionHandoff, ExecutionJournalProofs

Commands == [kind : {"request", "recover", "acknowledge"}, id : Ids, after : Numbers]
Distinct(s) == \A m, n \in DOMAIN s : s[m] = s[n] => m = n

-----------------------------------------------------------------------------
(* Lists *)

\* Every natural number is in a set that has 0 and, with a number, the next.
LEMMA EveryNumber ==
    ASSUME NEW S, 0 \in S, \A n \in Nat : n \in S => n + 1 \in S
    PROVE  Nat \subseteq S
<1> SUFFICES ASSUME NEW m \in Nat, m \notin S PROVE FALSE OBVIOUS
<1> DEFINE T == Nat \ S
<1>1. T \subseteq Nat /\ T # {} OBVIOUS
<1>2. IsWellFoundedOn(OpToRel(<, Nat), Nat) BY NatLessThanWellFounded
<1>3. PICK x \in T : \A y \in T : ~(<<y, x>> \in OpToRel(<, Nat)) BY <1>1, <1>2, WFMin
<1>4. x \in Nat /\ x \notin S BY <1>3
<1>5. \A y \in T : ~(y < x) BY <1>1, <1>3 DEF OpToRel
<1>6. x # 0 BY <1>4
<1>7. x - 1 \in Nat /\ x - 1 < x /\ x = (x - 1) + 1 BY <1>4, <1>6
<1>8. x - 1 \in S BY <1>5, <1>7
<1> QED BY <1>4, <1>7, <1>8

\* A recursion over the first n of a list defines a function.
Batch(rel, ids, flight, f, n) ==
    IF n = 0 THEN [flight |-> flight, out |-> <<>>] ELSE AckOne(rel, f[n - 1], ids[n])

LEMMA BatchesAreDefined ==
    ASSUME NEW rel, NEW ids \in Seq(Ids), NEW flight
    PROVE  AckBatches(rel, ids, flight) =
              [n \in 0 .. Len(ids) |-> Batch(rel, ids, flight, AckBatches(rel, ids, flight), n)]
<1> DEFINE Fits(f, m) == f = [n \in 0 .. m |-> Batch(rel, ids, flight, f, n)]
           D == {m \in Nat : \E f : Fits(f, m)}
<1>1. 0 \in D
  <2> DEFINE f == [n \in 0 .. 0 |-> [flight |-> flight, out |-> <<>>]]
  <2>1. Fits(f, 0) BY DEF Batch
  <2> QED BY <2>1
<1>2. ASSUME NEW m \in Nat, m \in D PROVE m + 1 \in D
  <2>1. PICK f : Fits(f, m) BY <1>2
  <2> DEFINE g == [n \in 0 .. m + 1 |-> IF n <= m THEN f[n] ELSE AckOne(rel, f[m], ids[m + 1])]
  <2>2. \A n \in 0 .. m + 1 : g[n] = Batch(rel, ids, flight, g, n)
    <3> SUFFICES ASSUME NEW n \in 0 .. m + 1 PROVE g[n] = Batch(rel, ids, flight, g, n) OBVIOUS
    <3>1. f = [k \in 0 .. m |-> Batch(rel, ids, flight, f, k)] BY <2>1
    <3>2. CASE n <= m
      <4>1. g[n] = f[n] /\ f[n] = Batch(rel, ids, flight, f, n) BY <3>1, <3>2
      <4>2. n # 0 => g[n - 1] = f[n - 1] BY <3>2
      <4> QED BY <4>1, <4>2 DEF Batch
    <3>3. CASE n = m + 1
      <4>1. g[n - 1] = f[m] /\ g[n] = AckOne(rel, f[m], ids[m + 1]) BY <3>3
      <4> QED BY <3>3, <4>1 DEF Batch
    <3> QED BY <3>2, <3>3
  <2> HIDE DEF g
  <2>3. g = [n \in 0 .. m + 1 |-> g[n]] BY DEF g
  <2>4. Fits(g, m + 1) BY <2>2, <2>3
  <2> QED BY <2>4
<1>3. Nat \subseteq D
  <2> HIDE DEF D
  <2> QED BY <1>1, <1>2, EveryNumber
<1>4. \E f : Fits(f, Len(ids)) BY <1>3
<1>5. AckBatches(rel, ids, flight) = CHOOSE f : Fits(f, Len(ids)) BY DEF AckBatches, Batch
<1>6. Fits(AckBatches(rel, ids, flight), Len(ids))
  <2> HIDE DEF Fits
  <2> QED BY <1>4, <1>5
<1> QED BY <1>6

\* An acknowledgement is of an id that is to be acknowledged.
Acknowledgements(out, ids) ==
    /\ out \in Seq(Commands)
    /\ \A n \in DOMAIN out : out[n].kind = "acknowledge" /\ out[n].after = 0 /\ Has(ids, out[n].id)

LEMMA BatchOK ==
    ASSUME NEW rel \in Seq(Ids), NEW ack \in Seq(Ids), NEW flight
    PROVE  Acknowledgements(AckBatch(rel, ack, flight).out, rel \o ack)
<1> DEFINE ids == rel \o ack
           f == AckBatches(rel, ids, flight)
           D == {n \in Nat : n <= Len(ids) => Acknowledgements(f[n].out, ids)}
<1>1. ids \in Seq(Ids) OBVIOUS
<1>2. \A n \in 0 .. Len(ids) : f[n] = Batch(rel, ids, flight, f, n)
  <2> HIDE DEF ids
  <2>1. f = [n \in 0 .. Len(ids) |-> Batch(rel, ids, flight, f, n)] BY <1>1, BatchesAreDefined
  <2> HIDE DEF f
  <2> QED BY <2>1
<1> HIDE DEF f, ids
<1>3. 0 \in D
  <2>1. f[0].out = <<>> BY <1>1, <1>2 DEF Batch
  <2>2. <<>> \in Seq(Commands) /\ DOMAIN <<>> = {} OBVIOUS
  <2>3. Acknowledgements(f[0].out, ids) BY <2>1, <2>2 DEF Acknowledgements
  <2> QED BY <2>3
<1>4. ASSUME NEW n \in Nat, n \in D PROVE n + 1 \in D
  <2> SUFFICES ASSUME n + 1 <= Len(ids) PROVE Acknowledgements(f[n + 1].out, ids) OBVIOUS
  <2>1. n + 1 \in 0 .. Len(ids) /\ n + 1 # 0 /\ (n + 1) - 1 = n /\ n <= Len(ids) BY <1>1
  <2>2. f[n + 1] = AckOne(rel, f[n], ids[n + 1]) BY <1>2, <2>1 DEF Batch
  <2>3. Acknowledgements(f[n].out, ids) BY <1>4, <2>1
  <2>4. CASE f[n + 1] = f[n] BY <2>3, <2>4
  <2>5. CASE f[n + 1] = [flight |-> f[n].flight \cup {ids[n + 1]},
                         out |-> Append(f[n].out, SendTo("acknowledge", ids[n + 1], 0))]
    <3> DEFINE out == f[n].out
               c == SendTo("acknowledge", ids[n + 1], 0)
    <3>1. n + 1 \in DOMAIN ids /\ ids[n + 1] \in Ids BY <1>1, <2>1
    <3>2. 0 \in Numbers BY JournalAssumption DEF Numbers
    <3>3. c \in Commands /\ c.kind = "acknowledge" /\ c.after = 0 /\ Has(ids, c.id)
          BY <3>1, <3>2 DEF SendTo, Commands, Has
    <3>4. f[n + 1].out = Append(out, c) BY <2>5
    <3> HIDE DEF out, c
    <3>5. /\ out \in Seq(Commands)
          /\ \A k \in DOMAIN out : out[k].kind = "acknowledge" /\ out[k].after = 0 /\ Has(ids, out[k].id)
          BY <2>3 DEF Acknowledgements, out
    <3>6. /\ Append(out, c) \in Seq(Commands)
          /\ \A k \in DOMAIN Append(out, c) : Append(out, c)[k] = c \/ (k \in DOMAIN out /\ Append(out, c)[k] = out[k])
          BY <3>3, <3>5
    <3> QED BY <3>3, <3>4, <3>5, <3>6 DEF Acknowledgements
  <2> QED BY <2>2, <2>4, <2>5 DEF AckOne
<1>5. Nat \subseteq D
  <2> HIDE DEF D
  <2> QED BY <1>3, <1>4, EveryNumber
<1>6. Len(ids) \in D /\ Len(ids) \in Nat BY <1>1, <1>5
<1> QED BY <1>6 DEF AckBatch, f, ids

LEMMA AppendHas ==
    ASSUME NEW S, NEW s \in Seq(S), NEW x \in S
    PROVE  /\ Append(s, x) \in Seq(S)
           /\ \A y : Has(Append(s, x), y) <=> Has(s, y) \/ y = x
           /\ Distinct(s) /\ ~Has(s, x) => Distinct(Append(s, x))
<1>1. Append(s, x) \in Seq(S) /\ Len(Append(s, x)) = Len(s) + 1 /\ Len(s) \in Nat OBVIOUS
<1>2. \A i \in DOMAIN Append(s, x) : (i \in DOMAIN s /\ Append(s, x)[i] = s[i]) \/ Append(s, x)[i] = x OBVIOUS
<1>3. \A i \in DOMAIN s : i \in DOMAIN Append(s, x) /\ Append(s, x)[i] = s[i] OBVIOUS
<1>4. Len(s) + 1 \in DOMAIN Append(s, x) /\ Append(s, x)[Len(s) + 1] = x OBVIOUS
<1>5. \A y : Has(Append(s, x), y) <=> Has(s, y) \/ y = x BY <1>2, <1>3, <1>4 DEF Has
<1>6. Distinct(s) /\ ~Has(s, x) => Distinct(Append(s, x))
  <2> SUFFICES ASSUME Distinct(s), ~Has(s, x), NEW m \in DOMAIN Append(s, x), NEW n \in DOMAIN Append(s, x),
                      Append(s, x)[m] = Append(s, x)[n]
               PROVE  m = n
      BY DEF Distinct
  <2>1. CASE m \in DOMAIN s /\ n \in DOMAIN s BY <2>1 DEF Distinct
  <2>2. m \in 1 .. Len(s) + 1 /\ n \in 1 .. Len(s) + 1 /\ DOMAIN s = 1 .. Len(s) BY <1>1
  <2>3. CASE m = Len(s) + 1 /\ n \in DOMAIN s BY <1>4, <2>3 DEF Has
  <2>4. CASE n = Len(s) + 1 /\ m \in DOMAIN s BY <1>4, <2>4 DEF Has
  <2> QED BY <2>1, <2>2, <2>3, <2>4
<1> QED BY <1>1, <1>5, <1>6

LEMMA AddHas ==
    ASSUME NEW S, NEW s \in Seq(S), NEW x \in S
    PROVE  Add(s, x) \in Seq(S) /\ \A y : Has(Add(s, x), y) <=> Has(s, y) \/ y = x
BY AppendHas DEF Add, Has

LEMMA ConcatHas ==
    ASSUME NEW S, NEW s \in Seq(S), NEW t \in Seq(S)
    PROVE  s \o t \in Seq(S) /\ \A y : Has(s \o t, y) <=> Has(s, y) \/ Has(t, y)
<1>1. /\ s \o t \in Seq(S) /\ DOMAIN (s \o t) = 1 .. Len(s) + Len(t) /\ Len(s) \in Nat /\ Len(t) \in Nat
      /\ DOMAIN s = 1 .. Len(s) /\ DOMAIN t = 1 .. Len(t)
      OBVIOUS
<1>2. \A i \in DOMAIN s : i \in DOMAIN (s \o t) /\ (s \o t)[i] = s[i] BY <1>1
<1>3. \A i \in DOMAIN t : Len(s) + i \in DOMAIN (s \o t) /\ (s \o t)[Len(s) + i] = t[i] BY <1>1
<1>4. \A i \in DOMAIN (s \o t) : \/ i \in DOMAIN s /\ (s \o t)[i] = s[i]
                                 \/ i - Len(s) \in DOMAIN t /\ (s \o t)[i] = t[i - Len(s)]
      BY <1>1
<1> QED BY <1>1, <1>2, <1>3, <1>4 DEF Has

\* Deleting a key of a Map or a Set.
LEMMA WithoutHas ==
    ASSUME NEW S, NEW s \in Seq(S), NEW x
    PROVE  /\ Without(s, x) \in Seq(S)
           /\ \A y : Has(Without(s, x), y) => Has(s, y)
           /\ \A y : Has(s, y) /\ y # x => Has(Without(s, x), y)
           /\ Distinct(s) => Distinct(Without(s, x)) /\ ~Has(Without(s, x), x)
<1>1. CASE ~Has(s, x) BY <1>1 DEF Without
<1>2. CASE Has(s, x)
  <2> DEFINE p == CHOOSE i \in DOMAIN s : s[i] = x
             w == Without(s, x)
  <2>1. p \in 1 .. Len(s) /\ s[p] = x /\ Len(s) \in Nat BY <1>2 DEF Has
  <2> DEFINE a == SubSeq(s, 1, p - 1)
             b == SubSeq(s, p + 1, Len(s))
  <2>2. w = a \o b BY <1>2 DEF Without, RemoveAt, w, p
  <2> HIDE DEF p, w
  <2>3. a \in Seq(S) /\ Len(a) = p - 1 /\ \A i \in 1 .. p - 1 : a[i] = s[i] BY <2>1
  <2>4. b \in Seq(S) /\ Len(b) = Len(s) - p /\ \A i \in 1 .. Len(s) - p : b[i] = s[p + i] BY <2>1
  <2> HIDE DEF a, b
  <2>5. /\ w \in Seq(S) /\ Len(w) = Len(a) + Len(b)
        /\ \A i \in 1 .. Len(a) : w[i] = a[i]
        /\ \A i \in Len(a) + 1 .. Len(a) + Len(b) : w[i] = b[i - Len(a)]
    <3>1. /\ a \o b \in Seq(S) /\ Len(a \o b) = Len(a) + Len(b) BY <2>3, <2>4
    <3>2. \A i \in 1 .. Len(a) : (a \o b)[i] = a[i] BY <2>3, <2>4
    <3>3. \A i \in Len(a) + 1 .. Len(a) + Len(b) : (a \o b)[i] = b[i - Len(a)] BY <2>3, <2>4
    <3> QED BY <2>2, <3>1, <3>2, <3>3
  <2>6. Len(w) = Len(s) - 1 /\ \A i \in 1 .. p - 1 : w[i] = s[i] BY <2>1, <2>3, <2>4, <2>5
  <2>7. \A i \in p .. Len(s) - 1 : w[i] = s[i + 1]
    <3> SUFFICES ASSUME NEW i \in p .. Len(s) - 1 PROVE w[i] = s[i + 1] OBVIOUS
    <3>1. i \in Len(a) + 1 .. Len(a) + Len(b) /\ i - Len(a) = i - (p - 1) BY <2>1, <2>3, <2>4
    <3>2. w[i] = b[i - Len(a)] BY <2>5, <3>1
    <3>3. i - (p - 1) \in 1 .. Len(s) - p /\ p + (i - (p - 1)) = i + 1 BY <2>1
    <3>4. b[i - (p - 1)] = s[p + (i - (p - 1))] BY <2>4, <3>3
    <3> QED BY <3>1, <3>2, <3>3, <3>4
  <2> DEFINE at(i) == IF i < p THEN i ELSE i + 1
  <2>8. /\ DOMAIN w = 1 .. Len(s) - 1 /\ DOMAIN s = 1 .. Len(s)
        /\ \A i \in DOMAIN w : at(i) \in DOMAIN s /\ at(i) # p /\ w[i] = s[at(i)]
    <3>1. DOMAIN w = 1 .. Len(s) - 1 /\ DOMAIN s = 1 .. Len(s) BY <2>1, <2>5, <2>6
    <3>2. ASSUME NEW i \in DOMAIN w PROVE at(i) \in DOMAIN s /\ at(i) # p /\ w[i] = s[at(i)]
      <4>1. CASE i < p BY <2>1, <2>6, <3>1, <4>1
      <4>2. CASE ~(i < p) BY <2>1, <2>7, <3>1, <4>2
      <4> QED BY <4>1, <4>2
    <3> QED BY <3>1, <3>2
  <2>9. \A k \in DOMAIN s : k # p => \E i \in DOMAIN w : at(i) = k
    <3> SUFFICES ASSUME NEW k \in DOMAIN s, k # p PROVE \E i \in DOMAIN w : at(i) = k OBVIOUS
    <3>1. CASE k < p
      <4>1. k \in DOMAIN w /\ at(k) = k BY <2>1, <2>8, <3>1
      <4> QED BY <4>1
    <3>2. CASE k > p
      <4>1. k - 1 \in DOMAIN w /\ at(k - 1) = k BY <2>1, <2>8, <3>2
      <4> QED BY <4>1
    <3> QED BY <2>1, <2>8, <3>1, <3>2
  <2>10. \A i, k \in DOMAIN w : at(i) = at(k) => i = k BY <2>1, <2>8
  <2> HIDE DEF at
  <2>11. \A y : Has(w, y) => Has(s, y) BY <2>8 DEF Has
  <2>12. \A y : Has(s, y) /\ y # x => Has(w, y)
    <3> SUFFICES ASSUME NEW k \in DOMAIN s, s[k] # x PROVE \E i \in DOMAIN w : w[i] = s[k] BY DEF Has
    <3>1. PICK i \in DOMAIN w : at(i) = k BY <2>1, <2>9
    <3> QED BY <2>8, <3>1
  <2>13. Distinct(s) => Distinct(w) /\ ~Has(w, x)
    <3> SUFFICES ASSUME Distinct(s) PROVE Distinct(w) /\ ~Has(w, x) OBVIOUS
    <3>1. Distinct(w) BY <2>8, <2>10 DEF Distinct
    <3>2. ASSUME NEW i \in DOMAIN w, w[i] = x PROVE FALSE
      <4>1. s[at(i)] = s[p] /\ at(i) \in DOMAIN s /\ p \in DOMAIN s BY <2>1, <2>8, <3>2
      <4> QED BY <2>8, <4>1 DEF Distinct
    <3> QED BY <3>1, <3>2 DEF Has
  <2> QED BY <2>5, <2>11, <2>12, <2>13 DEF w
<1> QED BY <1>1, <1>2

\* The members of a finite set, each once.
LEMMA SetToSeqHas ==
    ASSUME NEW S, IsFiniteSet(S)
    PROVE  SetToSeq(S) \in Seq(S) /\ Distinct(SetToSeq(S)) /\ \A y : Has(SetToSeq(S), y) => y \in S
<1>1. PICK n \in Nat : ExistsBijection(1 .. n, S) BY FS_NatBijection
<1>2. Cardinality(S) = n BY <1>1, FS_CountingElements
<1>3. PICK f : f \in Bijection(1 .. n, S) BY <1>1 DEF ExistsBijection
<1>4. f \in [1 .. n -> S] /\ IsInjective(f) BY <1>3 DEF Bijection, Injection, IsInjective
<1>5. SetToSeq(S) \in [1 .. n -> S] /\ IsInjective(SetToSeq(S)) BY <1>2, <1>4 DEF SetToSeq
<1> QED BY <1>5 DEF Distinct, IsInjective, Has

-----------------------------------------------------------------------------
(* The inductive invariant.                                                 *)
(*                                                                          *)
(* A request is written to the owner more than once: by request(), by each  *)
(* replay, and by a replay that finds it while it goes on.  What makes an   *)
(* acknowledgement, a loss or an answer final is that no copy is left and   *)
(* none will be written (Closed): a reply for release, a commit or a        *)
(* recover message end the writing, the link keeps the order, and a new     *)
(* link starts empty.                                                       *)

Started(id) == IF id \in Jobs THEN row[id] # "absent" ELSE query[id] # "new"
Done(id) == Started(id) /\ (Relevant(id) => id \in recovering)
Asks(id) == \E c \in Commands : Has(toOwner, c) /\ c.kind = "request" /\ c.id = id
Closed(id) == Done(id) /\ ~Asks(id)
Gone(id) == Closed(id) /\ id \notin Known
Concluded(id) == IF id \in Known THEN Terminal(id) ELSE Gone(id)
Waits(id) == id \in Queries /\ query[id] = "sent"

\* What may be acknowledged: a committed Job, or a query that has its reply.
Acknowledgeable(id) == Done(id) /\ (id \in Jobs => Settled(id)) /\ (Waits(id) => Concluded(id))

Codes == TerminalValues \cup Refusals \cup {"unavailable"}
WireMessages ==
    [kind : {"ready", "event", "response"} \cup AuxKinds, id : Ids \cup {None},
     key : EventKeys \cup Notices \cup {None}, seq : Numbers, pending : SUBSET Interactions,
     outcome : Codes \cup {None}]

MessageOK(m) ==
    /\ m.kind # "notice"
    /\ m.kind # "ready" => m.id \in Ids
    /\ m.kind = "response" => m.outcome \in TerminalValues /\ Concluded(m.id)
    /\ m.kind = "error" => \/ m.outcome = "capacity"
                           \/ m.outcome = "worker-lost" /\ m.id \in Jobs /\ Gone(m.id)
    /\ m.kind = "acknowledged" => Started(m.id) /\ (Waits(m.id) => Gone(m.id))
MessagesOK ==
    /\ wire \in Seq(WireMessages)
    /\ \A m \in WireMessages : Has(aux, m) \/ Has(wire, m) => MessageOK(m)

CommandOK(c) ==
    /\ Started(c.id)
    /\ c.kind = "recover" => c.id \in Jobs /\ Closed(c.id)
    /\ c.kind = "acknowledge" => Acknowledgeable(c.id)
AcksLast(s) ==
    \A n, k \in DOMAIN s :
        n < k /\ s[n].kind = "acknowledge" /\ s[k].kind = "request" => s[n].id # s[k].id
CommandsOK ==
    /\ toOwner \in Seq(Commands) /\ AcksLast(toOwner)
    /\ \A c \in Commands : Has(toOwner, c) => CommandOK(c)

\* The same request under the same id, and none that was acknowledged.
EntriesOK ==
    /\ \A id \in Known : receipts[id].print = Fingerprint /\ Started(id)
    /\ \A id \in Ids : Tombstoned(id) => Gone(id) /\ (id \in Jobs => Settled(id))

PendingOK ==
    /\ pending \in Seq(Ids) /\ Distinct(pending)
    /\ \A id \in Ids : Has(pending, id) =>
          IF id \in Jobs THEN row[id] = "running" /\ ~Settling(id)
          ELSE query[id] = "sent" \/ (query[id] = "refused" /\ Has(released, id))
    /\ recovering \subseteq Jobs
    /\ \A j \in recovering : Started(j) /\ (peer # "down" => ~Asks(j))

RepliesOK ==
    /\ released \in Seq(Ids) /\ Distinct(released)
    /\ \A id \in Ids : Has(released, id) => id \in Queries /\ Has(pending, id) /\ Acknowledgeable(id)
    /\ acks \in Seq(Ids)
    /\ \A id \in Ids : Has(acks, id) => Acknowledgeable(id)
    /\ results \subseteq Jobs

RowsOK ==
    /\ row \in [Jobs -> {"absent", "running"} \cup Codes]
    /\ query \in [Queries -> {"new", "sent", "refused", "answered"}]
    /\ DOMAIN settling \subseteq Jobs
    /\ \A j \in DOMAIN settling :
          row[j] = "running" /\ settling[j] \in Codes
                            /\ (settling[j] \in {"unavailable", "worker-lost"} => Gone(j))
    /\ \A j \in Jobs : row[j] = "worker-lost" => Gone(j)
    /\ \A r \in Queries : query[r] = "answered" => Gone(r)

PeersOK ==
    /\ peer \in {"down", "open", "ready"} /\ alive \in BOOLEAN
    /\ cursor \in [Ids -> Numbers] /\ faults.crashes \in 0 .. MaxCrashes
    /\ faults = [drops |-> faults.drops, crashes |-> faults.crashes, exits |-> faults.exits]
    /\ peer # "down" => alive /\ linked /\ controller = Controller
    /\ ~alive => /\ Known = {} /\ acked = <<>> /\ aux = <<>> /\ wire = <<>> /\ toOwner = <<>>
                 /\ peer = "down"
    /\ controller \in {None, Controller} \/ (released = <<>> /\ acks = <<>> /\ peer = "down")

HandoffInv ==
    TypeOK /\ MessagesOK /\ CommandsOK /\ EntriesOK /\ PendingOK /\ RepliesOK /\ RowsOK /\ PeersOK

-----------------------------------------------------------------------------
(* What every step keeps *)

\* An id that was started stays so; one whose requests are all written stays
\* so; only a request in hand brings a receipt; only a query that was not
\* started begins to wait.
Keeps ==
    \A id \in Ids :
        /\ Started(id) => Started(id)'
        /\ Done(id) => Done(id)'
        /\ Done(id) /\ Asks(id)' => Asks(id)
        /\ id \in DOMAIN receipts' => id \in Known \/ Asks(id)
        /\ Waits(id)' => Waits(id) \/ ~Started(id)
        /\ id \in Jobs /\ Settled(id) => Settled(id)'
KeepsConcluded == \A id \in Ids : Concluded(id) => Concluded(id)'

LEMMA GoneStays ==
    ASSUME Keeps, NEW id \in Ids
    PROVE  (Closed(id) => Closed(id)') /\ (Gone(id) => Gone(id)')
BY DEF Keeps, Closed, Gone, Known

LEMMA AcknowledgeableStays ==
    ASSUME Keeps, KeepsConcluded, NEW id \in Ids, Acknowledgeable(id)
    PROVE  Acknowledgeable(id)'
<1>1. Done(id) /\ Started(id) /\ (id \in Jobs => Settled(id)) /\ (Waits(id) => Concluded(id))
      BY DEF Acknowledgeable, Done
<1>2. Done(id)' /\ (id \in Jobs => Settled(id)') /\ (Waits(id)' => Waits(id)) BY <1>1 DEF Keeps
<1>3. Concluded(id) => Concluded(id)' BY DEF KeepsConcluded
<1> QED BY <1>1, <1>2, <1>3 DEF Acknowledgeable

LEMMA MessageStays ==
    ASSUME Keeps, NEW m, MessageOK(m), m.kind = "response" => Concluded(m.id)'
    PROVE  MessageOK(m)'
<1>1. CASE m.kind = "ready" BY <1>1 DEF MessageOK
<1>2. CASE m.kind # "ready"
  <2>1. m.id \in Ids BY <1>2 DEF MessageOK
  <2>2. /\ Gone(m.id) => Gone(m.id)'
        /\ Started(m.id) => Started(m.id)'
        /\ Waits(m.id)' => Waits(m.id) \/ ~Started(m.id)
        BY <2>1, GoneStays DEF Keeps
  <2> QED BY <2>1, <2>2 DEF MessageOK
<1> QED BY <1>1, <1>2

LEMMA CommandStays ==
    ASSUME Keeps, KeepsConcluded, NEW c \in Commands, CommandOK(c)
    PROVE  CommandOK(c)'
<1>1. c.id \in Ids BY DEF Commands
<1>2. /\ Started(c.id) => Started(c.id)'
      /\ Closed(c.id) => Closed(c.id)'
      /\ Acknowledgeable(c.id) => Acknowledgeable(c.id)'
      BY <1>1, GoneStays, AcknowledgeableStays DEF Keeps
<1> QED BY <1>1, <1>2 DEF CommandOK

\* A receipt with an outcome keeps it, or is gone for good.
LEMMA ConcludedStays ==
    ASSUME Keeps,
           \A id \in Known : Terminal(id) => \/ id \in DOMAIN receipts' /\ Terminal(id)'
                                             \/ Gone(id)'
    PROVE  KeepsConcluded
<1> SUFFICES ASSUME NEW id \in Ids, Concluded(id) PROVE Concluded(id)' BY DEF KeepsConcluded
<1>1. Gone(id)' => Concluded(id)' BY DEF Concluded, Gone
<1>2. CASE id \in Known BY <1>1, <1>2 DEF Concluded, Known
<1>3. CASE id \notin Known BY <1>1, <1>3, GoneStays DEF Concluded
<1> QED BY <1>2, <1>3

-----------------------------------------------------------------------------
(* The order of the link *)

LEMMA TailHas ==
    ASSUME NEW S, NEW s \in Seq(S), s # <<>>
    PROVE  /\ Tail(s) \in Seq(S) /\ Head(s) \in S /\ Has(s, Head(s))
           /\ \A y : Has(Tail(s), y) => Has(s, y)
<1>1. /\ Tail(s) \in Seq(S) /\ Head(s) \in S /\ Head(s) = s[1] /\ 1 \in DOMAIN s
      /\ \A i \in DOMAIN Tail(s) : i + 1 \in DOMAIN s /\ Tail(s)[i] = s[i + 1]
      OBVIOUS
<1> QED BY <1>1 DEF Has

LEMMA TailLast ==
    ASSUME NEW s \in Seq(Commands), s # <<>>, AcksLast(s)
    PROVE  /\ AcksLast(Tail(s))
           /\ Head(s).kind = "acknowledge" =>
                 \A c : Has(s, c) /\ c.kind = "request" => c.id # Head(s).id
<1>1. /\ Head(s) = s[1] /\ 1 \in DOMAIN s /\ DOMAIN s = 1 .. Len(s) /\ Len(s) \in Nat
      /\ \A i \in DOMAIN Tail(s) : i \in Nat /\ i + 1 \in DOMAIN s /\ Tail(s)[i] = s[i + 1]
      OBVIOUS
<1>2. AcksLast(Tail(s))
  <2> SUFFICES ASSUME NEW n \in DOMAIN Tail(s), NEW k \in DOMAIN Tail(s), n < k,
                      Tail(s)[n].kind = "acknowledge", Tail(s)[k].kind = "request"
               PROVE  Tail(s)[n].id # Tail(s)[k].id
      BY DEF AcksLast
  <2>1. /\ n + 1 \in DOMAIN s /\ k + 1 \in DOMAIN s /\ n + 1 < k + 1
        /\ Tail(s)[n] = s[n + 1] /\ Tail(s)[k] = s[k + 1]
        BY <1>1
  <2> QED BY <2>1 DEF AcksLast
<1>3. ASSUME Head(s).kind = "acknowledge", NEW k \in DOMAIN s, s[k].kind = "request"
      PROVE  s[k].id # Head(s).id
  <2>1. k # 1 BY <1>1, <1>3
  <2>2. 1 < k BY <1>1, <2>1
  <2> QED BY <1>1, <1>3, <2>2 DEF AcksLast
<1> QED BY <1>2, <1>3 DEF Has

\* What a closed link still delivers.
LEMMA PrefixLast ==
    ASSUME NEW s \in Seq(Commands), AcksLast(s), NEW n \in 0 .. Len(s)
    PROVE  /\ SubSeq(s, 1, n) \in Seq(Commands) /\ AcksLast(SubSeq(s, 1, n))
           /\ \A c : Has(SubSeq(s, 1, n), c) => Has(s, c)
<1>1. /\ SubSeq(s, 1, n) \in Seq(Commands)
      /\ \A i \in DOMAIN SubSeq(s, 1, n) : i \in DOMAIN s /\ SubSeq(s, 1, n)[i] = s[i]
      OBVIOUS
<1> QED BY <1>1 DEF AcksLast, Has

LEMMA AppendLast ==
    ASSUME NEW s \in Seq(Commands), AcksLast(s), NEW c \in Commands,
           c.kind = "request" => \A x \in Commands : Has(s, x) /\ x.kind = "acknowledge" => x.id # c.id
    PROVE  AcksLast(Append(s, c))
<1>1. /\ Len(s) \in Nat /\ DOMAIN s = 1 .. Len(s) /\ DOMAIN Append(s, c) = 1 .. Len(s) + 1
      /\ Append(s, c)[Len(s) + 1] = c
      /\ \A i \in DOMAIN s : s[i] \in Commands /\ Append(s, c)[i] = s[i]
      OBVIOUS
<1> DEFINE t == Append(s, c)
<1> HIDE DEF t
<1> SUFFICES ASSUME NEW n \in DOMAIN t, NEW k \in DOMAIN t, n < k,
                    t[n].kind = "acknowledge", t[k].kind = "request"
             PROVE  t[n].id # t[k].id
    BY DEF AcksLast, t
<1>2. n \in DOMAIN s /\ t[n] = s[n] /\ s[n] \in Commands BY <1>1 DEF t
<1>3. CASE k \in DOMAIN s
  <2>1. t[k] = s[k] BY <1>1, <1>3 DEF t
  <2> QED BY <1>2, <1>3, <2>1 DEF AcksLast
<1>4. CASE k = Len(s) + 1
  <2>1. t[k] = c /\ Has(s, s[n]) BY <1>1, <1>2, <1>4 DEF t, Has
  <2> QED BY <1>2, <2>1
<1>5. k \in DOMAIN s \/ k = Len(s) + 1 BY <1>1 DEF t
<1> QED BY <1>3, <1>4, <1>5

LEMMA AcksAfter ==
    ASSUME NEW s \in Seq(Commands), AcksLast(s), NEW out \in Seq(Commands),
           \A n \in DOMAIN out : out[n].kind = "acknowledge"
    PROVE  AcksLast(s \o out)
<1>1. /\ Len(s) \in Nat /\ Len(out) \in Nat /\ DOMAIN s = 1 .. Len(s) /\ DOMAIN out = 1 .. Len(out)
      /\ DOMAIN (s \o out) = 1 .. Len(s) + Len(out)
      OBVIOUS
<1>2. \A i \in DOMAIN s : (s \o out)[i] = s[i] BY <1>1
<1>3. \A i \in DOMAIN (s \o out) : i \notin DOMAIN s => (s \o out)[i].kind = "acknowledge"
  <2> SUFFICES ASSUME NEW i \in DOMAIN (s \o out), i \notin DOMAIN s
               PROVE  (s \o out)[i].kind = "acknowledge"
      OBVIOUS
  <2>1. i - Len(s) \in DOMAIN out /\ (s \o out)[i] = out[i - Len(s)] BY <1>1
  <2> QED BY <2>1
<1> SUFFICES ASSUME NEW n \in DOMAIN (s \o out), NEW k \in DOMAIN (s \o out), n < k,
                    (s \o out)[n].kind = "acknowledge", (s \o out)[k].kind = "request"
             PROVE  (s \o out)[n].id # (s \o out)[k].id
    BY DEF AcksLast
<1>4. k \in DOMAIN s BY <1>3
<1>5. n \in DOMAIN s BY <1>1, <1>4
<1> QED BY <1>2, <1>4, <1>5 DEF AcksLast

\* What sendNextAcknowledgement writes.
LEMMA WrittenAcks ==
    ASSUME NEW rel \in Seq(Ids), NEW ack \in Seq(Ids), NEW flight, NEW out \in Seq(Commands), AcksLast(out),
           NEW written, written = <<>> \/ written = AckBatch(rel, ack, flight).out
    PROVE  /\ out \o written \in Seq(Commands) /\ AcksLast(out \o written)
           /\ \A c \in Commands : Has(out \o written, c) =>
                 Has(out, c) \/ (c.kind = "acknowledge" /\ (Has(rel, c.id) \/ Has(ack, c.id)))
<1>1. Acknowledgements(written, rel \o ack)
  <2>1. CASE written = AckBatch(rel, ack, flight).out BY <2>1, BatchOK
  <2>2. CASE written = <<>>
    <3>1. <<>> \in Seq(Commands) /\ DOMAIN <<>> = {} OBVIOUS
    <3> QED BY <2>2, <3>1 DEF Acknowledgements
  <2> QED BY <2>1, <2>2
<1>2. /\ written \in Seq(Commands)
      /\ \A n \in DOMAIN written : written[n].kind = "acknowledge" /\ Has(rel \o ack, written[n].id)
      BY <1>1 DEF Acknowledgements
<1>3. \A y : Has(rel \o ack, y) <=> Has(rel, y) \/ Has(ack, y) BY ConcatHas
<1>4. ASSUME NEW c, Has(written, c)
      PROVE  c.kind = "acknowledge" /\ (Has(rel, c.id) \/ Has(ack, c.id))
  <2>1. PICK n \in DOMAIN written : written[n] = c BY <1>4 DEF Has
  <2>2. c.kind = "acknowledge" /\ Has(rel \o ack, c.id) BY <1>2, <2>1
  <2> QED BY <1>3, <2>2
<1>5. out \o written \in Seq(Commands) /\ \A c : Has(out \o written, c) <=> Has(out, c) \/ Has(written, c)
      BY <1>2, ConcatHas
<1>6. AcksLast(out \o written) BY <1>2, AcksAfter
<1> QED BY <1>4, <1>5, <1>6

LEMMA SendAcksOK ==
    ASSUME NEW up, NEW rel \in Seq(Ids), NEW ack \in Seq(Ids), NEW flight, NEW out \in Seq(Commands),
           AcksLast(out), SendAcks(up, rel, ack, flight, out)
    PROVE  /\ released' = rel /\ acks' = ack
           /\ toOwner' \in Seq(Commands) /\ AcksLast(toOwner')
           /\ \A c \in Commands : Has(toOwner', c) =>
                 Has(out, c) \/ (c.kind = "acknowledge" /\ (Has(rel, c.id) \/ Has(ack, c.id)))
<1> DEFINE written == (IF up THEN AckBatch(rel, ack, flight)
                       ELSE [flight |-> flight, out |-> <<>>]).out
<1>1. released' = rel /\ acks' = ack /\ toOwner' = out \o written BY DEF SendAcks
<1>2. written = <<>> \/ written = AckBatch(rel, ack, flight).out OBVIOUS
<1> HIDE DEF written
<1> QED BY <1>1, <1>2, WrittenAcks

-----------------------------------------------------------------------------
(* What a step does to the messages *)

\* An unsequenced message is put in its place, or is refused.
LEMMA AuxPutHas ==
    ASSUME ControlOK, NEW m \in AuxMessages
    PROVE  \A x : Has(AuxPut(m), x) => Has(aux, x) \/ x = m
<1>1. aux \in Seq(AuxMessages) BY DEF ControlOK
<1>2. CASE AuxRefuses(m) BY <1>2 DEF AuxPut
<1>3. CASE ~AuxRefuses(m) /\ AuxHas(m)
  <2>1. AuxPut(m) = [i \in DOMAIN aux |-> IF SameAux(aux[i], m) THEN m ELSE aux[i]] BY <1>3 DEF AuxPut
  <2> QED BY <2>1 DEF Has
<1>4. CASE ~AuxRefuses(m) /\ ~AuxHas(m)
  <2>1. AuxPut(m) = Append(aux, m) BY <1>4 DEF AuxPut
  <2> QED BY <1>1, <2>1, AppendHas
<1> QED BY <1>2, <1>3, <1>4

\* What pump() writes is an auxiliary message or has a receipt.
LEMMA NextIsOK ==
    ReceiptsOK /\ OrderOK /\ ControlOK /\ HasNext
      /\ (\A m \in WireMessages : Has(aux, m) => MessageOK(m))
    => NextMessage \in WireMessages /\ \A m : m = NextMessage => MessageOK(m)
<1> SUFFICES ASSUME ReceiptsOK, OrderOK, ControlOK, HasNext,
                    \A m \in WireMessages : Has(aux, m) => MessageOK(m)
             PROVE  NextMessage \in WireMessages /\ MessageOK(NextMessage)
    OBVIOUS
<1>1. CASE AuxTurn
  <2>1. aux # <<>> /\ NextMessage = Head(aux) BY <1>1 DEF HasNext, AuxTurn, NextMessage
  <2>2. Head(aux) \in AuxMessages /\ Has(aux, Head(aux)) BY <2>1, TailHas DEF ControlOK
  <2>3. AuxMessages \subseteq WireMessages
        BY JournalAssumption DEF AuxMessages, WireMessages, AuxKinds, Codes, Refusals, Numbers
  <2> QED BY <2>1, <2>2, <2>3
<1>2. CASE ~AuxTurn
  <2>1. Ready # {} /\ NextMessage = NextReceipt BY <1>2 DEF AuxTurn, NextMessage
  <2>2. FirstReady \in Known /\ NextReceipt \in Unsent(FirstReady) BY <2>1, NextReceiptOK
  <2> DEFINE id == FirstReady
             m == NextReceipt
  <2> HIDE DEF id, m
  <2>3. id \in Known /\ m \in Unsent(id) /\ id \in Ids /\ IsReceipt(receipts[id]) BY <2>2 DEF ReceiptsOK, id, m
  <2>4. receipts[id].events \in [DOMAIN receipts[id].events -> Events]
        /\ DOMAIN receipts[id].events \subseteq EventKeys
        /\ receipts[id].terminalSeq \in Numbers /\ receipts[id].terminal \in TerminalValues \cup {None}
        BY <2>3 DEF IsReceipt
  <2>5. CASE \E k \in DOMAIN receipts[id].events :
                m = Message("event", id, k, receipts[id].events[k].seq, receipts[id].events[k].pending, None)
    <3>1. PICK k \in DOMAIN receipts[id].events :
             m = Message("event", id, k, receipts[id].events[k].seq, receipts[id].events[k].pending, None)
          BY <2>5
    <3>2. receipts[id].events[k] \in Events BY <2>4
    <3>3. receipts[id].events[k].seq \in Numbers /\ receipts[id].events[k].pending \in SUBSET Interactions
          BY <3>2, JournalAssumption DEF Events, Numbers
    <3>4. m \in WireMessages BY <2>3, <2>4, <3>1, <3>3 DEF WireMessages, Message
    <3>5. MessageOK(m) BY <2>3, <3>1 DEF MessageOK, Message
    <3> QED BY <2>1, <3>4, <3>5 DEF m
  <2>6. CASE Terminal(id) /\ m = Message("response", id, None, receipts[id].terminalSeq, {}, receipts[id].terminal)
    <3>1. receipts[id].terminal \in TerminalValues BY <2>4, <2>6 DEF Terminal
    <3>2. m \in WireMessages BY <2>3, <2>4, <2>6, <3>1 DEF WireMessages, Message, Codes
    <3>3. MessageOK(m) BY <2>3, <2>6, <3>1 DEF MessageOK, Message, Concluded
    <3> QED BY <2>1, <3>2, <3>3 DEF m
  <2> QED BY <2>3, <2>5, <2>6 DEF Unsent
<1> QED BY <1>1, <1>2

LEMMA PumpMessages ==
    ASSUME NEW flight, NEW w \in Seq(WireMessages), Pump(flight, w) \/ wire' = w,
           ReceiptsOK', OrderOK', ControlOK',
           \A m \in WireMessages : Has(w, m) \/ Has(aux', m) => MessageOK(m)'
    PROVE  MessagesOK'
<1>1. CASE wire' = w BY <1>1 DEF MessagesOK, Has
<1>2. CASE HasNext' /\ wire' = Append(w, NextMessage')
  <2>1. (ReceiptsOK /\ OrderOK /\ ControlOK /\ HasNext
           /\ (\A m \in WireMessages : Has(aux, m) => MessageOK(m))
         => NextMessage \in WireMessages /\ \A m : m = NextMessage => MessageOK(m))'
        BY NextIsOK, PTL
  <2>2. (\A m \in WireMessages : Has(aux, m) => MessageOK(m))' BY DEF Has
  <2>3. NextMessage' \in WireMessages /\ \A m : m = NextMessage' => MessageOK(m)'
        BY <1>2, <2>1, <2>2 DEF WireMessages
  <2>4. /\ wire' \in Seq(WireMessages)
        /\ \A m : Has(wire', m) <=> Has(w, m) \/ m = NextMessage'
        BY <1>2, <2>3, AppendHas
  <2>5. \A m \in WireMessages : Has(aux', m) \/ Has(wire', m) => MessageOK(m)' BY <2>3, <2>4
  <2> QED BY <2>4, <2>5 DEF MessagesOK, Has
<1> QED BY <1>1, <1>2 DEF Pump

LEMMA CommandsStep ==
    ASSUME CommandsOK, Keeps, KeepsConcluded, toOwner' \in Seq(Commands), AcksLast(toOwner'),
           \A c \in Commands : Has(toOwner', c) => Has(toOwner, c) \/ CommandOK(c)'
    PROVE  CommandsOK'
<1>1. \A c \in Commands : Has(toOwner', c) => CommandOK(c)' BY CommandStays DEF CommandsOK
<1>2. AcksLast(toOwner)' BY DEF AcksLast
<1> QED BY <1>1, <1>2 DEF CommandsOK, Has

LEMMA MessagesStay ==
    ASSUME MessagesOK, Keeps, KeepsConcluded, NEW m \in WireMessages, Has(aux, m) \/ Has(wire, m)
    PROVE  MessageOK(m)'
<1>1. MessageOK(m) BY DEF MessagesOK
<1>2. m.kind = "response" => Concluded(m.id) /\ m.id \in Ids BY <1>1 DEF MessageOK
<1> QED BY <1>1, <1>2, MessageStays DEF KeepsConcluded

-----------------------------------------------------------------------------
(* The steps of the execution owner: rows, queries and the proxy are as     *)
(* they were, and the link to the owner may have been read.                 *)

OwnerFrame ==
    /\ UNCHANGED <<durable, proxy, peer, query, alive, faults, controller, linked>>
    /\ toOwner' = toOwner \/ (toOwner # <<>> /\ toOwner' = Tail(toOwner))

LEMMA OwnerCommands ==
    ASSUME CommandsOK, OwnerFrame
    PROVE  /\ toOwner' \in Seq(Commands) /\ AcksLast(toOwner')
           /\ \A c \in Commands : Has(toOwner', c) => Has(toOwner, c)
<1>1. toOwner \in Seq(Commands) /\ AcksLast(toOwner) BY DEF CommandsOK
<1>2. CASE toOwner' = toOwner BY <1>1, <1>2
<1>3. CASE toOwner # <<>> /\ toOwner' = Tail(toOwner) BY <1>1, <1>3, TailHas, TailLast
<1> QED BY <1>2, <1>3 DEF OwnerFrame

LEMMA OwnerKeeps ==
    ASSUME CommandsOK, OwnerFrame,
           \A id \in Ids : id \in DOMAIN receipts' => id \in Known \/ Asks(id)
    PROVE  /\ Keeps
           /\ \A id \in Ids : /\ Started(id)' = Started(id) /\ Done(id)' = Done(id)
                              /\ Relevant(id)' = Relevant(id) /\ Waits(id)' = Waits(id)
                              /\ Settled(id)' = Settled(id)
<1>1. UNCHANGED <<row, query, pending, released, recovering>> BY DEF OwnerFrame, durable, proxy
<1>2. \A id \in Ids : /\ Started(id)' = Started(id) /\ Done(id)' = Done(id)
                      /\ Relevant(id)' = Relevant(id) /\ Waits(id)' = Waits(id)
                      /\ Settled(id)' = Settled(id)
      BY <1>1 DEF Started, Done, Relevant, Waits, Settled, RowOf, Has
<1>3. \A id \in Ids : Asks(id)' => Asks(id) BY OwnerCommands DEF Asks, Has
<1> QED BY <1>2, <1>3 DEF Keeps

\* The receipts and tombstones of a step of the owner.
LEMMA OwnerStep ==
    ASSUME HandoffInv, OwnerFrame, alive, TypeOK',
           \A id \in Ids : id \in DOMAIN receipts' => id \in Known \/ Asks(id),
           \A id \in DOMAIN receipts' : receipts'[id].print = Fingerprint /\ (id \in Known \/ Started(id)),
           \A id \in Known : Terminal(id) => \/ id \in DOMAIN receipts' /\ Terminal(id)'
                                             \/ Gone(id)',
           \A id \in Ids : Tombstoned(id)' => Tombstoned(id) \/ (Gone(id)' /\ (id \in Jobs => Settled(id))),
           NEW flight, Pump(flight, wire) \/ wire' = wire,
           \A m \in WireMessages : Has(aux', m) => Has(aux, m) \/ MessageOK(m)'
    PROVE  HandoffInv' /\ Keeps
<1>1. TypeOK /\ MessagesOK /\ CommandsOK /\ EntriesOK /\ PendingOK /\ RepliesOK /\ RowsOK /\ PeersOK
      BY DEF HandoffInv
<1>2. /\ Keeps
      /\ \A id \in Ids : /\ Started(id)' = Started(id) /\ Done(id)' = Done(id)
                         /\ Relevant(id)' = Relevant(id) /\ Waits(id)' = Waits(id)
                         /\ Settled(id)' = Settled(id)
      BY <1>1, OwnerKeeps
<1>3. KeepsConcluded BY <1>2, ConcludedStays
<1>4. UNCHANGED <<row, query, pending, released, acks, recovering, cursor, results, settling, peer, alive, faults,
                  controller, linked>>
      BY DEF OwnerFrame, durable, proxy
<1>5. MessagesOK'
  <2>1. ReceiptsOK' /\ OrderOK' /\ ControlOK' BY DEF TypeOK
  <2>2. wire \in Seq(WireMessages) BY <1>1 DEF MessagesOK
  <2>3. \A m \in WireMessages : Has(wire, m) \/ Has(aux', m) => MessageOK(m)'
        BY <1>1, <1>2, <1>3, MessagesStay
  <2> QED BY <2>1, <2>2, <2>3, PumpMessages
<1>6. CommandsOK' BY <1>1, <1>2, <1>3, OwnerCommands, CommandsStep
<1>7. EntriesOK'
  <2>1. \A id \in Ids : Tombstoned(id)' => Gone(id)' /\ (id \in Jobs => Settled(id)')
        BY <1>1, <1>2, GoneStays DEF EntriesOK
  <2>2. \A id \in DOMAIN receipts' : id \in Ids BY DEF TypeOK, ReceiptsOK, Known
  <2>3. \A id \in DOMAIN receipts' : receipts'[id].print = Fingerprint /\ Started(id)'
        BY <1>1, <1>2, <2>2 DEF EntriesOK
  <2> QED BY <2>1, <2>3 DEF EntriesOK, Known
<1>8. \A id \in Ids : Asks(id)' => Asks(id) BY <1>1, OwnerCommands DEF Asks, Has
<1>9. PendingOK'
  <2>1. \A j \in recovering : Started(j)' /\ (peer' # "down" => ~Asks(j)')
    <3>1. recovering \subseteq Ids /\ recovering' = recovering
          BY <1>1, <1>4, JournalAssumption DEF PendingOK, Jobs
    <3> QED BY <1>1, <1>2, <1>4, <1>8, <3>1 DEF PendingOK
  <2> QED BY <1>1, <1>4, <2>1 DEF PendingOK, Distinct, Has, Settling
<1>10. RepliesOK'
  <2>1. \A id \in Ids : Acknowledgeable(id) => Acknowledgeable(id)' BY <1>2, <1>3, AcknowledgeableStays
  <2> QED BY <1>1, <1>4, <2>1 DEF RepliesOK, Distinct, Has
<1>11. RowsOK'
  <2>1. \A id \in Ids : Gone(id) => Gone(id)' BY <1>2, GoneStays
  <2>2. Jobs \subseteq Ids /\ Queries \subseteq Ids BY JournalAssumption DEF Jobs, Queries
  <2> QED BY <1>1, <1>4, <2>1, <2>2 DEF RowsOK
<1>12. PeersOK' BY <1>1, <1>4 DEF PeersOK, Controller
<1> QED BY <1>2, <1>5, <1>6, <1>7, <1>9, <1>10, <1>11, <1>12 DEF HandoffInv

LEMMA HeadCommand ==
    ASSUME CommandsOK, toOwner # <<>>
    PROVE  /\ Head(toOwner) \in Commands /\ Has(toOwner, Head(toOwner)) /\ CommandOK(Head(toOwner))
           /\ Head(toOwner).id \in Ids /\ Head(toOwner).after \in Numbers
<1>1. Head(toOwner) \in Commands /\ Has(toOwner, Head(toOwner)) BY TailHas DEF CommandsOK
<1> QED BY <1>1 DEF CommandsOK, Commands

LEMMA OneFingerprint == Fingerprint \in Prints
BY HandoffAssumption DEF Fingerprint

\* Only the `sent` of a receipt changes.
LEMMA SameReceipts ==
    ASSUME TypeOK, DOMAIN receipts' = Known,
           \A id \in Known : /\ receipts'[id].print = receipts[id].print
                             /\ receipts'[id].terminal = receipts[id].terminal
    PROVE  \A id \in Known : Terminal(id) => id \in DOMAIN receipts' /\ Terminal(id)'
BY DEF Terminal, Known

LEMMA OwnerAdmitsOK ==
    ASSUME HandoffInv, OwnerAdmits
    PROVE  HandoffInv' /\ Keeps
<1>1. TypeOK /\ CommandsOK /\ EntriesOK /\ alive /\ toOwner # <<>> /\ Head(toOwner).kind = "request"
      BY DEF HandoffInv, OwnerAdmits, OwnerReads
<1> PICK c \in Commands : c = Head(toOwner) BY <1>1, HeadCommand
<1> DEFINE id == c.id
           after == c.after
<1>2. id \in Ids /\ after \in Numbers /\ Started(id) /\ Asks(id)
      BY <1>1, HeadCommand DEF CommandOK, Asks
<1>3. Admit(id, after, Fingerprint) BY DEF OwnerAdmits
<1> HIDE DEF id, after
<1>4. TypeOK' BY <1>1, <1>2, <1>3, OneFingerprint, AdmitOK
<1>5. UNCHANGED <<acked, controller, linked>>
      BY <1>3 DEF Admit, AdmitNew, AdmitExisting, AdmitConflict, AdmitTombstoned, AdmitOverCapacity, ReplyError
<1>6. OwnerFrame BY <1>1, <1>5 DEF OwnerAdmits, OwnerRead, OwnerFrame
<1>7. \A i \in Ids : Tombstoned(i)' => Tombstoned(i) BY <1>5 DEF Tombstoned
<1>8. CASE AdmitNew(id, Fingerprint)
  <2>1. /\ DOMAIN receipts' = Known \cup {id} /\ id \notin Known
        /\ receipts'[id].print = Fingerprint
        /\ \A i \in Known : receipts'[i] = receipts[i]
        /\ wire' = wire /\ aux' = aux
        BY <1>8 DEF AdmitNew, AdmitsNew, NewReceipt
  <2>2. \A i \in Ids : i \in DOMAIN receipts' => i \in Known \/ Asks(i) BY <1>2, <2>1
  <2>3. \A i \in DOMAIN receipts' : receipts'[i].print = Fingerprint /\ (i \in Known \/ Started(i))
        BY <1>1, <1>2, <2>1 DEF EntriesOK
  <2>4. \A i \in Known : Terminal(i) => i \in DOMAIN receipts' /\ Terminal(i)' BY <2>1 DEF Terminal
  <2> QED BY <1>1, <1>4, <1>6, <1>7, <2>1, <2>2, <2>3, <2>4, OwnerStep
<1>9. CASE AdmitExisting(id, after, Fingerprint)
  <2>1. /\ DOMAIN receipts' = Known /\ aux' = aux /\ Pump(writing, wire)
        /\ \A i \in Known : receipts'[i].print = receipts[i].print /\ receipts'[i].terminal = receipts[i].terminal
    <3>1. /\ receipts' = [receipts EXCEPT ![id].sent = Rewound(@, after)] /\ id \in Known
          /\ aux' = aux /\ Pump(writing, wire)
          BY <1>9 DEF AdmitExisting
    <3>2. ReceiptsOK BY <1>1 DEF TypeOK
    <3> QED BY <3>1, <3>2 DEF Known, ReceiptsOK, IsReceipt
  <2>2. \A i \in Known : Terminal(i) => i \in DOMAIN receipts' /\ Terminal(i)' BY <1>1, <2>1, SameReceipts
  <2>3. \A i \in DOMAIN receipts' : receipts'[i].print = Fingerprint /\ (i \in Known \/ Started(i))
        BY <1>1, <2>1 DEF EntriesOK
  <2> QED BY <1>1, <1>4, <1>6, <1>7, <2>1, <2>2, <2>3, OwnerStep
<1>10. CASE AdmitConflict(id, Fingerprint) BY <1>1, <1>10 DEF AdmitConflict, EntriesOK
<1>11. CASE AdmitTombstoned(id) BY <1>1, <1>2, <1>11 DEF AdmitTombstoned, EntriesOK, Gone, Closed
<1>12. CASE AdmitOverCapacity(id)
  <2> DEFINE m == ErrorReply(id, "capacity")
  <2>1. m \in AuxMessages /\ MessageOK(m)'
        BY <1>2 DEF ErrorReply, Message, AuxMessages, AuxKinds, MessageOK
  <2>2. aux' = AuxPut(m) /\ receipts' = receipts /\ Pump(Superseded(m), wire)
        BY <1>12 DEF AdmitOverCapacity, ReplyError
  <2> HIDE DEF m
  <2>3. \A x \in WireMessages : Has(aux', x) => Has(aux, x) \/ MessageOK(x)'
        BY <1>1, <2>1, <2>2, AuxPutHas DEF TypeOK
  <2>4. \A i \in Known : Terminal(i) => i \in DOMAIN receipts' /\ Terminal(i)' BY <2>2 DEF Terminal, Known
  <2>5. \A i \in DOMAIN receipts' : receipts'[i].print = Fingerprint /\ (i \in Known \/ Started(i))
        BY <1>1, <2>2 DEF EntriesOK, Known
  <2>6. \A i \in Ids : i \in DOMAIN receipts' => i \in Known \/ Asks(i) BY <2>2 DEF Known
  <2> QED BY <1>1, <1>4, <1>6, <1>7, <2>2, <2>3, <2>4, <2>5, <2>6, OwnerStep
<1> QED BY <1>3, <1>8, <1>9, <1>10, <1>11, <1>12 DEF Admit

LEMMA OwnerRecoversOK ==
    ASSUME HandoffInv, OwnerRecovers
    PROVE  HandoffInv' /\ Keeps
<1>1. TypeOK /\ CommandsOK /\ EntriesOK /\ alive /\ toOwner # <<>> /\ Head(toOwner).kind = "recover"
      BY DEF HandoffInv, OwnerRecovers, OwnerReads
<1> PICK c \in Commands : c = Head(toOwner) BY <1>1, HeadCommand
<1> DEFINE id == c.id
           after == c.after
<1>2. id \in Ids /\ after \in Numbers /\ id \in Jobs /\ Closed(id)
      BY <1>1, HeadCommand DEF CommandOK
<1>3. Recover(id, after) BY DEF OwnerRecovers
<1> HIDE DEF id, after
<1>4. TypeOK' BY <1>1, <1>2, <1>3, RecoverOK
<1>5. UNCHANGED <<acked, controller, linked>> /\ DOMAIN receipts' = Known
      BY <1>3 DEF Recover, RecoverKnown, RecoverMissing, ReplyError, Known
<1>6. OwnerFrame BY <1>1, <1>5 DEF OwnerRecovers, OwnerRead, OwnerFrame
<1>7. \A i \in Ids : Tombstoned(i)' => Tombstoned(i) BY <1>5 DEF Tombstoned
<1>8. CASE RecoverKnown(id, after)
  <2>1. /\ aux' = aux /\ Pump(writing, wire)
        /\ \A i \in Known : receipts'[i].print = receipts[i].print /\ receipts'[i].terminal = receipts[i].terminal
    <3>1. /\ receipts' = [receipts EXCEPT ![id].sent = after] /\ id \in Known
          /\ aux' = aux /\ Pump(writing, wire)
          BY <1>8 DEF RecoverKnown
    <3>2. ReceiptsOK BY <1>1 DEF TypeOK
    <3> QED BY <3>1, <3>2 DEF Known, ReceiptsOK, IsReceipt
  <2>2. \A i \in Known : Terminal(i) => i \in DOMAIN receipts' /\ Terminal(i)' BY <1>1, <1>5, <2>1, SameReceipts
  <2>3. \A i \in DOMAIN receipts' : receipts'[i].print = Fingerprint /\ (i \in Known \/ Started(i))
        BY <1>1, <1>5, <2>1 DEF EntriesOK
  <2> QED BY <1>1, <1>4, <1>5, <1>6, <1>7, <2>1, <2>2, <2>3, OwnerStep
<1>9. CASE RecoverMissing(id)
  <2> DEFINE m == ErrorReply(id, "worker-lost")
  <2>1. aux' = AuxPut(m) /\ receipts' = receipts /\ Pump(Superseded(m), wire) /\ id \notin Known
        BY <1>9 DEF RecoverMissing, ReplyError
  <2>2. \A i \in Ids : i \in DOMAIN receipts' => i \in Known \/ Asks(i) BY <1>5
  <2>3. Gone(id)' BY <1>1, <1>2, <1>6, <2>1, <2>2, OwnerKeeps, GoneStays DEF Gone
  <2>4. m \in AuxMessages /\ MessageOK(m)'
        BY <1>2, <2>3 DEF ErrorReply, Message, AuxMessages, AuxKinds, MessageOK
  <2> HIDE DEF m
  <2>5. \A x \in WireMessages : Has(aux', x) => Has(aux, x) \/ MessageOK(x)'
        BY <1>1, <2>1, <2>4, AuxPutHas DEF TypeOK
  <2>6. \A i \in Known : Terminal(i) => i \in DOMAIN receipts' /\ Terminal(i)' BY <2>1 DEF Terminal, Known
  <2>7. \A i \in DOMAIN receipts' : receipts'[i].print = Fingerprint /\ (i \in Known \/ Started(i))
        BY <1>1, <2>1 DEF EntriesOK, Known
  <2> QED BY <1>1, <1>4, <1>6, <1>7, <2>1, <2>2, <2>5, <2>6, <2>7, OwnerStep
<1> QED BY <1>3, <1>8, <1>9 DEF Recover

LEMMA OwnerAcknowledgesOK ==
    ASSUME HandoffInv, OwnerAcknowledges
    PROVE  HandoffInv' /\ Keeps
<1>1. /\ TypeOK /\ CommandsOK /\ EntriesOK /\ alive
      /\ toOwner # <<>> /\ Head(toOwner).kind = "acknowledge"
      BY DEF HandoffInv, OwnerAcknowledges, OwnerReads
<1> PICK c \in Commands : c = Head(toOwner) BY <1>1, HeadCommand
<1> DEFINE id == c.id
<1>2. id \in Ids /\ Acknowledgeable(id) BY <1>1, HeadCommand DEF CommandOK
<1>3. Acknowledge(id) BY DEF OwnerAcknowledges
<1>4. ~Asks(id) BY <1>1, TailLast DEF Asks, CommandsOK
<1> HIDE DEF id
<1>5. /\ Closed(id) /\ Started(id) /\ (id \in Jobs => Settled(id))
      /\ Waits(id) => id \notin Known \/ Terminal(id)
      BY <1>2, <1>4 DEF Acknowledgeable, Closed, Done, Concluded
<1>6. TypeOK' BY <1>1, <1>2, <1>3, AcknowledgeOK
<1>7. OwnerFrame BY <1>1, <1>3 DEF OwnerAcknowledges, OwnerRead, OwnerFrame, Acknowledge
<1>8. /\ DOMAIN receipts' \subseteq Known
      /\ \A i \in DOMAIN receipts' : /\ receipts'[i].print = receipts[i].print
                                     /\ receipts'[i].terminal = receipts[i].terminal
      /\ \A i \in Known : i # id \/ ~Terminal(i) => i \in DOMAIN receipts'
      /\ id \in Known /\ Terminal(id) => id \notin DOMAIN receipts'
  <2>1. ReceiptsOK BY <1>1 DEF TypeOK
  <2>2. CASE id \in Known /\ Terminal(id) /\ Forget(id) BY <2>2 DEF Forget, Known
  <2>3. CASE id \in Known /\ ~Terminal(id) /\ receipts' = [receipts EXCEPT ![id].acknowledged = TRUE]
        BY <2>1, <2>3 DEF ReceiptsOK, IsReceipt, Known
  <2>4. CASE id \notin Known /\ receipts' = receipts BY <2>4 DEF Known
  <2> QED BY <1>3, <2>2, <2>3, <2>4 DEF Acknowledge
<1>9. \A i \in Ids : i \in DOMAIN receipts' => i \in Known \/ Asks(i) BY <1>8
<1>10. Keeps /\ Started(id)' /\ (Waits(id)' => Waits(id))
       BY <1>1, <1>2, <1>5, <1>7, <1>9, OwnerKeeps
<1>11. Closed(id)' BY <1>2, <1>5, <1>10, GoneStays
<1>12. id \notin Known \/ Terminal(id) => Gone(id)' BY <1>8, <1>11 DEF Gone, Known
<1>13. \A i \in Known : Terminal(i) => (i \in DOMAIN receipts' /\ Terminal(i)') \/ Gone(i)'
       BY <1>8, <1>12 DEF Terminal
<1>14. \A i \in Ids : Tombstoned(i)' => Tombstoned(i) \/ (Gone(i)' /\ (i \in Jobs => Settled(i)))
  <2>1. CASE acked' = acked BY <2>1 DEF Tombstoned
  <2>2. CASE id \in Known /\ Terminal(id) /\ acked' = Remember(id)
    <3>1. ASSUME NEW i \in Ids, Tombstoned(i)' PROVE Tombstoned(i) \/ i = id
      <4> DEFINE s == IF Tombstoned(id) THEN acked ELSE Append(acked, id)
      <4>1. acked \in Seq(Ids) BY <1>1 DEF TypeOK, ControlOK
      <4>2. s \in Seq(Ids) /\ (Has(s, i) => Has(acked, i) \/ i = id)
            BY <1>2, <4>1, AppendHas
      <4>3. acked' = s \/ (s # <<>> /\ acked' = Tail(s))
        <5>1. acked' = IF Len(s) > TombstoneCapacity THEN Tail(s) ELSE s BY <2>2 DEF Remember
        <5>2. TombstoneCapacity \in Nat BY JournalAssumption
        <5> HIDE DEF s
        <5> QED BY <4>2, <5>1, <5>2
      <4> HIDE DEF s
      <4>4. Has(acked', i) => Has(s, i) BY <4>2, <4>3, TailHas
      <4> QED BY <3>1, <4>2, <4>4 DEF Has, Tombstoned
    <3> QED BY <1>5, <1>12, <2>2, <3>1
  <2> QED BY <1>3, <2>1, <2>2 DEF Acknowledge
<1> DEFINE m == AckReply(id)
<1>15. m \in AuxMessages /\ MessageOK(m)'
       BY <1>2, <1>5, <1>10, <1>12 DEF AckReply, Message, AuxMessages, AuxKinds, MessageOK
<1>16. aux' = AuxPut(m) BY <1>3 DEF Acknowledge
<1>17. \E flight : Pump(flight, wire) \/ wire' = wire BY <1>3 DEF Acknowledge
<1> HIDE DEF m
<1>18. \A x \in WireMessages : Has(aux', x) => Has(aux, x) \/ MessageOK(x)'
       BY <1>1, <1>15, <1>16, AuxPutHas DEF TypeOK
<1>19. \A i \in DOMAIN receipts' : receipts'[i].print = Fingerprint /\ (i \in Known \/ Started(i))
       BY <1>1, <1>8 DEF EntriesOK
<1> QED BY <1>1, <1>6, <1>7, <1>9, <1>13, <1>14, <1>17, <1>18, <1>19, OwnerStep

LEMMA AssignOK ==
    ASSUME HandoffInv, NEW j \in Jobs, Assign(j)
    PROVE  HandoffInv' /\ Keeps
<1>1. TypeOK /\ EntriesOK /\ alive /\ j \in Ids
      BY JournalAssumption DEF HandoffInv, Assign, Jobs
<1>2. SendEvent(j, "assignment", None, FALSE) BY DEF Assign, SendAssignment
<1>3. TypeOK' BY <1>1, <1>2, SendEventOK DEF EventKeys
<1>4. /\ DOMAIN receipts' = Known /\ acked' = acked /\ aux' = aux
      /\ UNCHANGED <<controller, linked>> /\ Pump(writing, wire)
      BY <1>2 DEF SendEvent, Known
<1>5. \A i \in Known : receipts'[i].print = receipts[i].print /\ receipts'[i].terminal = receipts[i].terminal
  <2>1. ReceiptsOK BY <1>1 DEF TypeOK
  <2>2. PICK r : /\ receipts' = [receipts EXCEPT ![j] = r]
                 /\ r.print = receipts[j].print /\ r.terminal = receipts[j].terminal
    <3> DEFINE r == receipts[j]
    <3>1. j \in Known /\ IsReceipt(r) BY <1>2, <2>1 DEF SendEvent, ReceiptsOK
    <3>2. PICK q : /\ receipts' = [receipts EXCEPT ![j] = q]
                   /\ \E n, f, b : \/ q = [r EXCEPT !.sequence = n, !.events = f]
                                    \/ q = [r EXCEPT !.sequence = n, !.failed = b, !.events = f]
          BY <1>2 DEF SendEvent
    <3>3. q.print = r.print /\ q.terminal = r.terminal
      <4> HIDE DEF r
      <4> QED BY <3>1, <3>2 DEF IsReceipt
    <3> QED BY <3>2, <3>3
  <2> QED BY <2>1, <2>2 DEF ReceiptsOK, Known
<1>6. OwnerFrame BY <1>4 DEF Assign, OwnerFrame, link
<1>7. \A i \in Known : Terminal(i) => i \in DOMAIN receipts' /\ Terminal(i)' BY <1>1, <1>4, <1>5, SameReceipts
<1>8. \A i \in DOMAIN receipts' : receipts'[i].print = Fingerprint /\ (i \in Known \/ Started(i))
      BY <1>1, <1>4, <1>5 DEF EntriesOK
<1>9. \A i \in Ids : Tombstoned(i)' => Tombstoned(i) BY <1>4 DEF Tombstoned
<1> QED BY <1>1, <1>3, <1>4, <1>6, <1>7, <1>8, <1>9, OwnerStep

LEMMA FinishOK ==
    ASSUME HandoffInv, NEW id \in Ids, NEW outcome \in Outcomes, Finish(id, outcome)
    PROVE  HandoffInv' /\ Keeps
<1>1. TypeOK /\ ReceiptsOK /\ EntriesOK /\ alive BY DEF HandoffInv, Finish, TypeOK
<1>2. CASE SendResponse(id, outcome, FALSE)
  <2>1. TypeOK' BY <1>1, <1>2, SendResponseOK
  <2>2. /\ DOMAIN receipts' = Known /\ acked' = acked /\ aux' = aux
        /\ UNCHANGED <<controller, linked>> /\ Pump(writing, wire) /\ ~Terminal(id)
        BY <1>2 DEF SendResponse, Known
  <2>3. PICK r : receipts' = [receipts EXCEPT ![id] = r] /\ r.print = receipts[id].print
    <3> DEFINE r == receipts[id]
    <3>1. id \in Known /\ IsReceipt(r) BY <1>1, <1>2 DEF SendResponse, ReceiptsOK
    <3>2. PICK q : /\ receipts' = [receipts EXCEPT ![id] = q]
                   /\ \E n, o, f :
                         q = [r EXCEPT !.sequence = n, !.terminalSeq = n, !.terminal = o, !.events = f]
          BY <1>2 DEF SendResponse
    <3>3. q.print = r.print
      <4> HIDE DEF r
      <4> QED BY <3>1, <3>2 DEF IsReceipt
    <3> QED BY <3>2, <3>3
  <2>4. \A i \in Known : receipts'[i].print = receipts[i].print /\ (i # id => receipts'[i] = receipts[i])
        BY <1>1, <2>3 DEF ReceiptsOK, Known
  <2>5. OwnerFrame BY <2>2 DEF Finish, OwnerFrame, link
  <2>6. \A i \in Known : Terminal(i) => i \in DOMAIN receipts' /\ Terminal(i)' BY <2>2, <2>4 DEF Terminal
  <2>7. \A i \in DOMAIN receipts' : receipts'[i].print = Fingerprint /\ (i \in Known \/ Started(i))
        BY <1>1, <2>2, <2>4 DEF EntriesOK
  <2>8. \A i \in Ids : Tombstoned(i)' => Tombstoned(i) BY <2>2 DEF Tombstoned
  <2> QED BY <1>1, <2>1, <2>2, <2>5, <2>6, <2>7, <2>8, OwnerStep
<1>3. CASE SendUnwantedResponse(id)
  <2>1. TypeOK' BY <1>1, <1>3, SendUnwantedResponseOK
  <2>2. /\ DOMAIN receipts' = Known \ {id} /\ acked' = acked /\ aux' = aux
        /\ UNCHANGED <<controller, linked>> /\ wire' = wire /\ ~Terminal(id)
        /\ \A i \in Known \ {id} : receipts'[i] = receipts[i]
        BY <1>3 DEF SendUnwantedResponse, Forget, Known
  <2>3. OwnerFrame BY <2>2 DEF Finish, OwnerFrame, link
  <2>4. \A i \in Known : Terminal(i) => i \in DOMAIN receipts' /\ Terminal(i)' BY <2>2 DEF Terminal
  <2>5. \A i \in DOMAIN receipts' : receipts'[i].print = Fingerprint /\ (i \in Known \/ Started(i))
        BY <1>1, <2>2 DEF EntriesOK
  <2>6. \A i \in Ids : Tombstoned(i)' => Tombstoned(i) BY <2>2 DEF Tombstoned
  <2> QED BY <1>1, <2>1, <2>2, <2>3, <2>4, <2>5, <2>6, OwnerStep
<1> QED BY <1>2, <1>3 DEF Finish

LEMMA OwnerWritesOK ==
    ASSUME HandoffInv, OwnerWrites
    PROVE  HandoffInv' /\ Keeps
<1>1. TypeOK /\ ReceiptsOK /\ ControlOK /\ EntriesOK /\ alive BY DEF HandoffInv, OwnerWrites, TypeOK
<1>2. TypeOK' BY <1>1, ReceiptWrittenOK, AuxWrittenOK, PumpLaterOK DEF OwnerWrites
<1>3. UNCHANGED <<acked, controller, linked>> /\ DOMAIN receipts' = Known
      BY DEF OwnerWrites, ReceiptWritten, AuxWritten, PumpLater, Known
<1>4. \A i \in Known : receipts'[i].print = receipts[i].print /\ receipts'[i].terminal = receipts[i].terminal
  <2>1. receipts' = receipts \/ \E id, n : receipts' = [receipts EXCEPT ![id].sent = n]
        BY DEF OwnerWrites, ReceiptWritten, AuxWritten, PumpLater
  <2> QED BY <1>1, <2>1 DEF ReceiptsOK, IsReceipt, Known
<1>5. aux' = aux \/ (aux # <<>> /\ aux' = Tail(aux))
  <2>1. CASE AuxWritten
    <3>1. writing \in Writes /\ writing.kind \in AuxKinds /\ (writing.current => aux # <<>>)
          BY <1>1, <2>1 DEF AuxWritten, Finished, TypeOK, WritingOK, Writes
    <3> QED BY <2>1, <3>1 DEF AuxWritten
  <2> QED BY <2>1 DEF OwnerWrites, ReceiptWritten, PumpLater
<1>6. \A x \in WireMessages : Has(aux', x) => Has(aux, x)
      BY <1>1, <1>5, TailHas DEF ControlOK
<1>7. Pump(NoWrite, wire) \/ wire' = wire BY DEF OwnerWrites, ReceiptWritten, AuxWritten, PumpLater
<1>8. OwnerFrame BY <1>3 DEF OwnerWrites, OwnerFrame, link
<1>9. \A i \in Known : Terminal(i) => i \in DOMAIN receipts' /\ Terminal(i)' BY <1>1, <1>3, <1>4, SameReceipts
<1>10. \A i \in DOMAIN receipts' : receipts'[i].print = Fingerprint /\ (i \in Known \/ Started(i))
       BY <1>1, <1>3, <1>4 DEF EntriesOK
<1>11. \A i \in Ids : Tombstoned(i)' => Tombstoned(i) BY <1>3 DEF Tombstoned
<1> QED BY <1>1, <1>2, <1>3, <1>6, <1>7, <1>8, <1>9, <1>10, <1>11, OwnerStep

-----------------------------------------------------------------------------
(* The steps of the controller and of the link: the owner keeps its         *)
(* receipts, and messages may be read or lost.                              *)

ControllerFrame ==
    /\ UNCHANGED <<receipts, acked>>
    /\ aux' = aux \/ aux' = <<>>
    /\ wire' \in {wire, <<>>} \/ (wire # <<>> /\ wire' = Tail(wire))

SameJournal == UNCHANGED <<receipts, order, acked, aux, writing, burst, linked, controller>>

LEMMA SameJournalOK ==
    ASSUME TypeOK, SameJournal
    PROVE  TypeOK'
BY DEF SameJournal, TypeOK, ReceiptsOK, OrderOK, WritingOK, ControlOK, Known, SameAux, IsReceipt

LEMMA ControllerStep ==
    ASSUME HandoffInv, ControllerFrame, TypeOK', Keeps
    PROVE  /\ MessagesOK' /\ EntriesOK' /\ KeepsConcluded
           /\ \A id \in Ids : Gone(id) => Gone(id)'
           /\ \A id \in Ids : Acknowledgeable(id) => Acknowledgeable(id)'
<1>1. MessagesOK /\ EntriesOK /\ ReceiptsOK BY DEF HandoffInv, TypeOK
<1>2. receipts' = receipts /\ acked' = acked BY DEF ControllerFrame
<1>3. KeepsConcluded
  <2>1. \A id \in Known : Terminal(id) => id \in DOMAIN receipts' /\ Terminal(id)' BY <1>2 DEF Known, Terminal
  <2> QED BY <2>1, ConcludedStays
<1>4. \A id \in Ids : Gone(id) => Gone(id)' BY GoneStays
<1>5. \A id \in Ids : Acknowledgeable(id) => Acknowledgeable(id)' BY <1>3, AcknowledgeableStays
<1>6. MessagesOK'
  <2>1. <<>> \in Seq(WireMessages) /\ \A m : ~Has(<<>>, m) BY DEF Has
  <2>2. wire' \in Seq(WireMessages) /\ \A m : Has(wire', m) => Has(wire, m)
        BY <1>1, <2>1, TailHas DEF ControllerFrame, MessagesOK
  <2>3. \A m : Has(aux', m) => Has(aux, m) BY <2>1 DEF ControllerFrame
  <2>4. \A m \in WireMessages : Has(aux', m) \/ Has(wire', m) => MessageOK(m)'
        BY <1>1, <1>3, <2>2, <2>3, MessagesStay
  <2> QED BY <2>2, <2>4 DEF MessagesOK, Has
<1>7. EntriesOK'
  <2>1. \A id \in Known : id \in Ids BY <1>1 DEF ReceiptsOK
  <2>2. \A id \in Known : receipts'[id].print = Fingerprint /\ Started(id)'
        BY <1>1, <1>2, <2>1 DEF EntriesOK, Keeps
  <2>3. \A id \in Ids : Tombstoned(id)' => Tombstoned(id) BY <1>2 DEF Tombstoned
  <2>4. \A id \in Ids : Tombstoned(id)' => Gone(id)' /\ (id \in Jobs => Settled(id)')
        BY <1>1, <1>4, <2>3 DEF EntriesOK, Keeps
  <2> QED BY <1>2, <2>2, <2>4 DEF EntriesOK, Known
<1> QED BY <1>3, <1>4, <1>5, <1>6, <1>7

\* Of the rows, the queries and the proxy nothing changes.
QuietFrame ==
    UNCHANGED <<row, query, pending, released, acks, recovering, results, settling>>

LEMMA QuietStep ==
    ASSUME HandoffInv, ControllerFrame, QuietFrame, TypeOK', PeersOK',
           peer = "down" => peer' = "down" \/ toOwner' = <<>>,
           toOwner' \in Seq(Commands), AcksLast(toOwner'),
           \A c \in Commands : Has(toOwner', c) =>
               Has(toOwner, c) \/ (CommandOK(c) /\ (c.kind = "request" => ~Done(c.id)))
    PROVE  HandoffInv' /\ Keeps
<1>1. CommandsOK /\ PendingOK /\ RepliesOK /\ RowsOK BY DEF HandoffInv
<1>2. \A id \in Ids : /\ Started(id)' = Started(id) /\ Done(id)' = Done(id)
                      /\ Waits(id)' = Waits(id) /\ Settled(id)' = Settled(id)
      BY DEF QuietFrame, Started, Done, Relevant, Waits, Settled, RowOf, Has
<1>3. \A id \in Ids : Done(id) /\ Asks(id)' => Asks(id)
  <2> SUFFICES ASSUME NEW id \in Ids, Done(id), Asks(id)' PROVE Asks(id) OBVIOUS
  <2>1. PICK c \in Commands : Has(toOwner', c) /\ c.kind = "request" /\ c.id = id BY DEF Asks, Has
  <2> QED BY <2>1 DEF Asks
<1>4. Keeps BY <1>2, <1>3 DEF Keeps, Known, ControllerFrame
<1>5. /\ MessagesOK' /\ EntriesOK' /\ KeepsConcluded
      /\ \A id \in Ids : Gone(id) => Gone(id)'
      /\ \A id \in Ids : Acknowledgeable(id) => Acknowledgeable(id)'
      BY <1>4, ControllerStep
<1>6. CommandsOK'
  <2>1. \A c \in Commands : Has(toOwner', c) => Has(toOwner, c) \/ CommandOK(c)'
        BY <1>4, <1>5, CommandStays
  <2> QED BY <1>1, <1>4, <1>5, <2>1, CommandsStep
<1>7. Jobs \subseteq Ids /\ Queries \subseteq Ids BY JournalAssumption DEF Jobs, Queries
<1>8. PendingOK'
  <2>1. recovering \subseteq Ids BY <1>1, <1>7 DEF PendingOK
  <2>2. ASSUME NEW j \in recovering PROVE Started(j)' /\ (peer' # "down" => ~Asks(j)')
    <3>1. Started(j)' /\ Done(j) BY <1>1, <1>2, <2>1, <2>2 DEF PendingOK, Done
    <3>2. CASE peer = "down" /\ toOwner' = <<>> BY <3>1, <3>2 DEF Asks, Has
    <3>3. CASE peer # "down" BY <1>1, <1>3, <2>1, <2>2, <3>1, <3>3 DEF PendingOK
    <3> QED BY <3>1, <3>2, <3>3
  <2> QED BY <1>1, <2>2 DEF PendingOK, Distinct, Has, Settling, QuietFrame
<1>9. RepliesOK' BY <1>1, <1>5 DEF RepliesOK, Distinct, Has, QuietFrame
<1>10. RowsOK' BY <1>1, <1>5, <1>7 DEF RowsOK, QuietFrame
<1> QED BY <1>4, <1>5, <1>6, <1>8, <1>9, <1>10 DEF HandoffInv

LEMMA ReadFrame ==
    ASSUME TypeOK, Read, wire # <<>>
    PROVE  ControllerFrame /\ TypeOK' /\ SameJournal
<1>1. SameJournal BY DEF Read, SameJournal
<1> QED BY <1>1, SameJournalOK DEF Read, ControllerFrame, SameJournal

\* Acknowledgements of what may be acknowledged.
LEMMA RepliesAcknowledge ==
    ASSUME RepliesOK, NEW c \in Commands, c.kind = "acknowledge", Has(released, c.id) \/ Has(acks, c.id)
    PROVE  CommandOK(c)
<1>1. c.id \in Ids BY DEF Commands
<1>2. Acknowledgeable(c.id) BY <1>1 DEF RepliesOK
<1> QED BY <1>2 DEF CommandOK, Acknowledgeable, Done

\* What a closed link still delivers was written before.
LEMMA LostOK ==
    ASSUME TypeOK, CommandsOK, NEW n \in 0 .. Len(toOwner), Lost(n)
    PROVE  /\ ControllerFrame /\ TypeOK' /\ SameJournal /\ peer' = "down"
           /\ toOwner' \in Seq(Commands) /\ AcksLast(toOwner')
           /\ \A c \in Commands : Has(toOwner', c) => Has(toOwner, c)
<1>1. SameJournal BY DEF Lost, SameJournal
<1>2. toOwner' = SubSeq(toOwner, 1, n) /\ peer' = "down" /\ wire' = <<>> BY DEF Lost
<1>3. TypeOK' BY <1>1, SameJournalOK
<1>4. ControllerFrame BY <1>1, <1>2 DEF ControllerFrame, SameJournal
<1> QED BY <1>1, <1>2, <1>3, <1>4, PrefixLast DEF CommandsOK

LEMMA GetReadyOK ==
    ASSUME HandoffInv, GetReady
    PROVE  HandoffInv' /\ Keeps
<1>1. TypeOK /\ CommandsOK /\ RepliesOK /\ PeersOK BY DEF HandoffInv
<1>2. ControllerFrame /\ TypeOK' /\ SameJournal BY <1>1, ReadFrame DEF GetReady, Incoming
<1>3. SendAcks(TRUE, released, acks, {}, toOwner) BY DEF GetReady
<1>4. /\ released' = released /\ acks' = acks /\ toOwner' \in Seq(Commands) /\ AcksLast(toOwner')
      /\ \A c \in Commands : Has(toOwner', c) =>
            Has(toOwner, c) \/ (c.kind = "acknowledge" /\ (Has(released, c.id) \/ Has(acks, c.id)))
      BY <1>1, <1>3, SendAcksOK DEF CommandsOK, RepliesOK
<1>5. \A c \in Commands : Has(toOwner', c) =>
         Has(toOwner, c) \/ (CommandOK(c) /\ (c.kind = "request" => ~Done(c.id)))
      BY <1>1, <1>4, RepliesAcknowledge
<1>6. QuietFrame BY <1>4 DEF GetReady, QuietFrame, durable
<1>7. PeersOK' BY <1>1, <1>2 DEF GetReady, Incoming, PeersOK, SameJournal, Controller
<1>8. peer # "down" BY DEF GetReady, Incoming
<1> QED BY <1>2, <1>4, <1>5, <1>6, <1>7, <1>8, QuietStep

LEMMA RetryAcksOK ==
    ASSUME HandoffInv, RetryAcks
    PROVE  HandoffInv' /\ Keeps
<1>1. TypeOK /\ CommandsOK /\ RepliesOK /\ PeersOK BY DEF HandoffInv
<1>2. SameJournal /\ ControllerFrame BY DEF RetryAcks, journalVars, SameJournal, ControllerFrame
<1>3. TypeOK' BY <1>1, <1>2, SameJournalOK
<1>4. SendAcks(Connected, released, acks, {}, toOwner) BY DEF RetryAcks
<1>5. /\ released' = released /\ acks' = acks /\ toOwner' \in Seq(Commands) /\ AcksLast(toOwner')
      /\ \A c \in Commands : Has(toOwner', c) =>
            Has(toOwner, c) \/ (c.kind = "acknowledge" /\ (Has(released, c.id) \/ Has(acks, c.id)))
      BY <1>1, <1>4, SendAcksOK DEF CommandsOK, RepliesOK
<1>6. \A c \in Commands : Has(toOwner', c) =>
         Has(toOwner, c) \/ (CommandOK(c) /\ (c.kind = "request" => ~Done(c.id)))
      BY <1>1, <1>5, RepliesAcknowledge
<1>7. QuietFrame BY <1>5 DEF RetryAcks, QuietFrame, durable
<1>8. PeersOK' BY <1>1, <1>2 DEF RetryAcks, Connected, PeersOK, SameJournal, Controller
<1>9. peer # "down" BY DEF RetryAcks, Connected
<1> QED BY <1>2, <1>3, <1>5, <1>6, <1>7, <1>8, <1>9, QuietStep

LEMMA GetQuietlyOK ==
    ASSUME HandoffInv, GetAssignment \/ IgnoreMessage
    PROVE  HandoffInv' /\ Keeps
<1>1. TypeOK /\ CommandsOK /\ MessagesOK /\ PeersOK BY DEF HandoffInv
<1>2. peer # "down" /\ wire # <<>> /\ Read BY DEF GetAssignment, IgnoreMessage, Incoming
<1>3. ControllerFrame /\ TypeOK' /\ SameJournal BY <1>1, <1>2, ReadFrame
<1>4. QuietFrame /\ UNCHANGED <<toOwner, peer, alive, faults>>
      BY DEF GetAssignment, IgnoreMessage, QuietFrame, durable, proxy, link
<1>5. cursor' \in [Ids -> Numbers]
  <2>1. Head(wire) \in WireMessages BY <1>1, <1>2, TailHas DEF MessagesOK
  <2>2. Msg.seq \in Numbers BY <2>1 DEF Msg, WireMessages
  <2> QED BY <1>1, <2>2 DEF PeersOK, GetAssignment, IgnoreMessage, proxy
<1>6. PeersOK' BY <1>1, <1>2, <1>3, <1>4, <1>5 DEF PeersOK, SameJournal, Controller, QuietFrame, Known
<1> QED BY <1>1, <1>2, <1>3, <1>4, <1>6, QuietStep DEF CommandsOK

LEMMA ReplayNextOK ==
    ASSUME HandoffInv, ReplayNext
    PROVE  HandoffInv' /\ Keeps
<1>1. TypeOK /\ CommandsOK /\ PendingOK /\ PeersOK BY DEF HandoffInv
<1>2. SameJournal /\ ControllerFrame /\ QuietFrame /\ peer = "ready"
      BY DEF ReplayNext, journalVars, SameJournal, ControllerFrame, QuietFrame, durable, proxy
<1>3. TypeOK' BY <1>1, <1>2, SameJournalOK
<1>4. PeersOK' BY <1>1, <1>2 DEF ReplayNext, proxy, PeersOK, SameJournal, Controller
<1>5. CASE toOwner' = toOwner BY <1>1, <1>2, <1>3, <1>4, <1>5, QuietStep DEF CommandsOK
<1>6. CASE \E i \in DOMAIN pending :
             /\ ~Has(released, pending[i])
             /\ toOwner' = Append(toOwner, SendTo(IF pending[i] \in recovering THEN "recover" ELSE "request",
                                                  pending[i], cursor[pending[i]]))
  <2>1. PICK i \in DOMAIN pending :
             /\ ~Has(released, pending[i])
             /\ toOwner' = Append(toOwner, SendTo(IF pending[i] \in recovering THEN "recover" ELSE "request",
                                                  pending[i], cursor[pending[i]]))
        BY <1>6
  <2> DEFINE id == pending[i]
             c == SendTo(IF id \in recovering THEN "recover" ELSE "request", id, cursor[id])
  <2>2. id \in Ids /\ Has(pending, id) /\ Relevant(id) BY <1>1, <2>1 DEF PendingOK, Has, Relevant
  <2>3. Started(id) BY <1>1, <2>2, HandoffAssumption DEF PendingOK, Started, Jobs, Queries
  <2>4. c \in Commands /\ c.id = id /\ (c.kind = "request" => id \notin recovering)
        /\ (c.kind = "recover" => id \in recovering) /\ c.kind # "acknowledge"
        BY <1>1, <2>2 DEF SendTo, Commands, PeersOK
  <2> HIDE DEF c, id
  <2>5. c.kind = "recover" => id \in Jobs /\ Closed(id)
        BY <1>1, <1>2, <2>3, <2>4 DEF PendingOK, Closed, Done
  <2>6. CommandOK(c) /\ (c.kind = "request" => ~Done(c.id))
        BY <2>2, <2>3, <2>4, <2>5 DEF CommandOK, Done
  <2>7. toOwner \in Seq(Commands) /\ AcksLast(toOwner) BY <1>1 DEF CommandsOK
  <2>8. toOwner' = Append(toOwner, c) BY <2>1 DEF c, id
  <2>9. \A x \in Commands : Has(toOwner, x) /\ x.kind = "acknowledge" => Done(x.id)
        BY <1>1 DEF CommandsOK, CommandOK, Acknowledgeable
  <2>10. AcksLast(toOwner') BY <2>4, <2>6, <2>7, <2>8, <2>9, AppendLast
  <2>11. toOwner' \in Seq(Commands) /\ \A x : Has(toOwner', x) <=> Has(toOwner, x) \/ x = c
         BY <2>4, <2>7, <2>8, AppendHas
  <2> QED BY <1>2, <1>3, <1>4, <2>6, <2>10, <2>11, QuietStep
<1>7. toOwner' = toOwner \/ \E i \in DOMAIN pending :
             /\ ~Has(released, pending[i])
             /\ toOwner' = Append(toOwner, SendTo(IF pending[i] \in recovering THEN "recover" ELSE "request",
                                                  pending[i], cursor[pending[i]]))
  <2> DEFINE left == {i \in DOMAIN pending : pending[i] \notin replayed /\ ~Has(released, pending[i])}
             first == CHOOSE i \in left : \A k \in left : i <= k
  <2>1. CASE left = {} BY <2>1 DEF ReplayNext
  <2>2. CASE left # {}
    <3>1. left \subseteq Nat BY <1>1 DEF PendingOK
    <3>2. \E i \in left : \A k \in left : i <= k BY <2>2, <3>1, Least
    <3>3. first \in left
      <4> HIDE DEF left
      <4> QED BY <3>2
    <3>4. toOwner' = Append(toOwner, SendTo(IF pending[first] \in recovering THEN "recover" ELSE "request",
                                            pending[first], cursor[pending[first]]))
          BY <2>2 DEF ReplayNext
    <3> HIDE DEF first
    <3> QED BY <3>3, <3>4
  <2> QED BY <2>1, <2>2
<1> QED BY <1>5, <1>6, <1>7

LEMMA LinkDropsOK ==
    ASSUME HandoffInv, LinkDrops \/ AssignmentRefused
    PROVE  HandoffInv' /\ Keeps
<1>1. TypeOK /\ CommandsOK /\ PeersOK BY DEF HandoffInv
<1>2. PICK n \in 0 .. Len(toOwner) : Lost(n) BY DEF LinkDrops, AssignmentRefused
<1>3. /\ ControllerFrame /\ TypeOK' /\ SameJournal /\ peer' = "down"
      /\ toOwner' \in Seq(Commands) /\ AcksLast(toOwner')
      /\ \A c \in Commands : Has(toOwner', c) => Has(toOwner, c)
      BY <1>1, <1>2, LostOK
<1>4. QuietFrame /\ UNCHANGED <<alive, cursor>> /\ faults' = [faults EXCEPT !.drops = faults.drops + 1]
      BY DEF LinkDrops, AssignmentRefused, QuietFrame, durable, proxy
<1>5. peer # "down" BY DEF LinkDrops, AssignmentRefused, Incoming
<1>6. PeersOK'
  <2>1. faults'.crashes = faults.crashes
        /\ faults' = [drops |-> faults'.drops, crashes |-> faults'.crashes, exits |-> faults'.exits]
        BY <1>1, <1>4 DEF PeersOK
  <2> QED BY <1>1, <1>3, <1>4, <1>5, <2>1 DEF PeersOK, SameJournal, Controller
<1> QED BY <1>3, <1>4, <1>6, QuietStep

LEMMA OwnerNoticesOK ==
    ASSUME HandoffInv, OwnerNotices
    PROVE  HandoffInv' /\ Keeps
<1>1. TypeOK /\ CommandsOK /\ PeersOK BY DEF HandoffInv
<1>2. TypeOK' BY <1>1, DisconnectOK DEF OwnerNotices
<1>3. ControllerFrame /\ QuietFrame /\ toOwner' = <<>>
      BY DEF OwnerNotices, Disconnect, ControllerFrame, QuietFrame, durable, proxy
<1>4. <<>> \in Seq(Commands) /\ AcksLast(<<>>) /\ \A c : ~Has(<<>>, c) BY DEF AcksLast, Has
<1>5. PeersOK' BY <1>1 DEF PeersOK, OwnerNotices, Disconnect, proxy, Controller
<1> QED BY <1>2, <1>3, <1>4, <1>5, QuietStep

LEMMA StutterOK ==
    ASSUME HandoffInv, UNCHANGED handoffVars
    PROVE  HandoffInv' /\ Keeps
<1>1. TypeOK /\ CommandsOK /\ PeersOK BY DEF HandoffInv
<1>2. SameJournal /\ ControllerFrame /\ QuietFrame /\ UNCHANGED <<peer, toOwner, alive, cursor, faults>>
      BY DEF handoffVars, journalVars, durable, proxy, link, SameJournal, ControllerFrame, QuietFrame
<1>3. TypeOK' BY <1>1, <1>2, SameJournalOK
<1>4. PeersOK' BY <1>1, <1>2 DEF PeersOK, Controller, SameJournal, QuietFrame, Known, ControllerFrame, handoffVars, journalVars
<1> QED BY <1>1, <1>2, <1>3, <1>4, QuietStep DEF CommandsOK

-----------------------------------------------------------------------------
(* The steps of rows, queries and the proxy *)

LEMMA IdKinds == Jobs \subseteq Ids /\ Queries \subseteq Ids /\ Jobs \cap Queries = {} /\ Ids = Jobs \cup Queries
BY JournalAssumption DEF Jobs, Queries

\* No failure and no outcome is the name of a state of a row.
LEMMA CodesAreFinal ==
    /\ "absent" \notin Codes /\ "running" \notin Codes
    /\ Outcomes \subseteq Codes
    /\ TerminalValues \cap {"worker-lost", "capacity", "unavailable"} = {}
BY HandoffAssumption DEF Codes, TerminalValues, Refusals

\* request() writes an id that nobody has heard of.
LEMMA DispatchOK ==
    ASSUME CommandsOK, PendingOK, NEW id \in Ids, ~Started(id),
           NEW out \in Seq(Commands), AcksLast(out),
           \A c \in Commands : Has(out, c) /\ c.kind = "acknowledge" => Started(c.id),
           Dispatch(id, out)
    PROVE  /\ toOwner' \in Seq(Commands) /\ AcksLast(toOwner')
           /\ \A c \in Commands : Has(toOwner', c) => Has(out, c) \/ (c.kind = "request" /\ c.id = id)
           /\ pending' \in Seq(Ids) /\ Distinct(pending')
           /\ \A x : Has(pending', x) <=> Has(pending, x) \/ x = id
<1> DEFINE c == SendTo("request", id, 0)
<1>1. 0 \in Numbers BY JournalAssumption DEF Numbers
<1>2. c \in Commands /\ c.kind = "request" /\ c.id = id BY <1>1 DEF SendTo, Commands
<1>3. toOwner' = Append(out, c) /\ pending' = Append(pending, id) BY DEF Dispatch
<1> HIDE DEF c
<1>4. toOwner' \in Seq(Commands) /\ \A x : Has(toOwner', x) <=> Has(out, x) \/ x = c
      BY <1>2, <1>3, AppendHas
<1>5. AcksLast(toOwner') BY <1>2, <1>3, AppendLast
<1>6. ~Has(pending, id)
  <2>1. Has(pending, id) => Started(id) BY IdKinds DEF PendingOK, Started
  <2> QED BY <2>1
<1>7. pending' \in Seq(Ids) /\ Distinct(pending') /\ \A x : Has(pending', x) <=> Has(pending, x) \/ x = id
      BY <1>3, <1>6, AppendHas DEF PendingOK
<1> QED BY <1>2, <1>4, <1>5, <1>7

LEMMA StartQueryOK ==
    ASSUME HandoffInv, NEW r \in Queries, StartQuery(r)
    PROVE  HandoffInv' /\ Keeps
<1>1. TypeOK /\ CommandsOK /\ PendingOK /\ RepliesOK /\ RowsOK /\ PeersOK BY DEF HandoffInv
<1>2. SameJournal /\ ControllerFrame BY DEF StartQuery, journalVars, SameJournal, ControllerFrame
<1>3. TypeOK' BY <1>1, <1>2, SameJournalOK
<1>4. /\ query' = [query EXCEPT ![r] = "sent"] /\ query[r] = "new" /\ Dispatch(r, toOwner)
      /\ UNCHANGED <<row, peer, alive, acks, faults, recovering, cursor, released, results, settling>>
      BY DEF StartQuery, Dispatch, durable
<1>5. r \in Ids /\ r \notin Jobs /\ ~Started(r) BY <1>4, IdKinds DEF Started
<1>6. /\ \A q \in Queries : query'[q] = IF q = r THEN "sent" ELSE query[q]
      /\ query' \in [Queries -> {"new", "sent", "refused", "answered"}]
      BY <1>1, <1>4 DEF RowsOK
<1>7. /\ toOwner' \in Seq(Commands) /\ AcksLast(toOwner')
      /\ \A c \in Commands : Has(toOwner', c) => Has(toOwner, c) \/ (c.kind = "request" /\ c.id = r)
      /\ pending' \in Seq(Ids) /\ Distinct(pending')
      /\ \A x : Has(pending', x) <=> Has(pending, x) \/ x = r
  <2>1. toOwner \in Seq(Commands) /\ AcksLast(toOwner) BY <1>1 DEF CommandsOK
  <2>2. \A c \in Commands : Has(toOwner, c) /\ c.kind = "acknowledge" => Started(c.id)
        BY <1>1 DEF CommandsOK, CommandOK
  <2> QED BY <1>1, <1>4, <1>5, <2>1, <2>2, DispatchOK
<1>8. ASSUME NEW id \in Ids, id # r
      PROVE  /\ Started(id)' = Started(id) /\ Done(id)' = Done(id) /\ Waits(id)' = Waits(id)
             /\ Relevant(id)' = Relevant(id) /\ (Asks(id)' => Asks(id))
  <2>1. Has(pending', id) <=> Has(pending, id) BY <1>7, <1>8
  <2>2. Relevant(id)' = Relevant(id) BY <1>4, <2>1 DEF Relevant, Has
  <2>3. Started(id)' = Started(id) /\ Waits(id)' = Waits(id) BY <1>4, <1>6, <1>8, IdKinds DEF Started, Waits
  <2>4. Done(id)' = Done(id) BY <1>4, <2>2, <2>3 DEF Done
  <2>5. Asks(id)' => Asks(id)
    <3> SUFFICES ASSUME Asks(id)' PROVE Asks(id) OBVIOUS
    <3>1. PICK c \in Commands : Has(toOwner', c) /\ c.kind = "request" /\ c.id = id BY DEF Asks, Has
    <3> QED BY <1>7, <1>8, <3>1 DEF Asks
  <2> QED BY <2>2, <2>3, <2>4, <2>5
<1>9. Started(r)' BY <1>5, <1>6 DEF Started
<1>10. Keeps
  <2>1. \A id \in Ids : Settled(id)' = Settled(id) BY <1>4 DEF Settled, RowOf
  <2>2. \A id \in Ids : id \in DOMAIN receipts' => id \in Known BY <1>2 DEF SameJournal, Known
  <2>3. ~Done(r) BY <1>5 DEF Done
  <2> QED BY <1>5, <1>8, <1>9, <2>1, <2>2, <2>3 DEF Keeps
<1>11. /\ MessagesOK' /\ EntriesOK' /\ KeepsConcluded
       /\ \A id \in Ids : Gone(id) => Gone(id)'
       /\ \A id \in Ids : Acknowledgeable(id) => Acknowledgeable(id)'
       BY <1>2, <1>3, <1>10, ControllerStep
<1>12. CommandsOK'
  <2>1. \A c \in Commands : Has(toOwner', c) => Has(toOwner, c) \/ CommandOK(c)'
        BY <1>7, <1>9 DEF CommandOK
  <2> QED BY <1>1, <1>7, <1>10, <1>11, <2>1, CommandsStep
<1>13. PendingOK'
  <2>1. \A id \in Ids : Has(pending', id) =>
           IF id \in Jobs THEN row'[id] = "running" /\ ~Settling(id)'
           ELSE query'[id] = "sent" \/ (query'[id] = "refused" /\ Has(released', id))
        BY <1>1, <1>4, <1>5, <1>6, <1>7, IdKinds DEF PendingOK, Settling
  <2>2. \A j \in recovering : Started(j)' /\ (peer' # "down" => ~Asks(j)')
        BY <1>1, <1>4, <1>5, <1>8, IdKinds DEF PendingOK
  <2> QED BY <1>1, <1>4, <1>7, <2>1, <2>2 DEF PendingOK, Distinct, Has
<1>14. RepliesOK'
  <2>1. \A id \in Ids : Has(released', id) => id \in Queries /\ Has(pending', id) /\ Acknowledgeable(id)'
        BY <1>1, <1>4, <1>7, <1>11 DEF RepliesOK
  <2>2. \A id \in Ids : Has(acks', id) => Acknowledgeable(id)' BY <1>1, <1>4, <1>11 DEF RepliesOK
  <2> QED BY <1>1, <1>4, <2>1, <2>2 DEF RepliesOK, Distinct, Has
<1>15. RowsOK' BY <1>1, <1>4, <1>6, <1>11, IdKinds DEF RowsOK
<1>16. PeersOK' BY <1>1, <1>2, <1>4 DEF PeersOK, SameJournal, Controller, StartQuery, Connected, Known
<1> QED BY <1>10, <1>3, <1>11, <1>12, <1>13, <1>14, <1>15, <1>16 DEF HandoffInv

LEMMA StartJobOK ==
    ASSUME HandoffInv, NEW j \in Jobs, StartJob(j)
    PROVE  HandoffInv' /\ Keeps
<1>1. TypeOK /\ CommandsOK /\ EntriesOK /\ PendingOK /\ RepliesOK /\ RowsOK /\ PeersOK BY DEF HandoffInv
<1>2. SameJournal /\ ControllerFrame BY DEF StartJob, journalVars, SameJournal, ControllerFrame
<1>3. TypeOK' BY <1>1, <1>2, SameJournalOK
<1>4. /\ row' = [row EXCEPT ![j] = "running"] /\ row[j] = "absent"
      /\ UNCHANGED <<query, peer, alive, faults, recovering, cursor, released, results>>
      BY DEF StartJob, Dispatch
<1>5. j \in Ids /\ j \notin Queries /\ ~Started(j) BY <1>4, IdKinds DEF Started
<1>6. /\ \A i \in Jobs : row'[i] = IF i = j THEN "running" ELSE row[i]
      /\ row' \in [Jobs -> {"absent", "running"} \cup Codes]
      BY <1>1, <1>4 DEF RowsOK
<1>7. /\ acks' \in Seq(Ids)
      /\ \A x \in Ids : Has(acks', x) => Acknowledgeable(x)
  <2>1. CASE acks' = acks BY <1>1, <2>1 DEF RepliesOK
  <2>2. CASE acks' = acks \o AckAll
    <3> DEFINE S == {i \in Unacknowledged : ~Has(acks, i)}
    <3>1. S \subseteq Ids /\ IsFiniteSet(S) /\ \A x \in S : x \in Jobs /\ row[x] \notin {"absent", "running"}
      <4>1. S \subseteq Jobs BY <1>1 DEF Unacknowledged, RepliesOK
      <4>2. IsFiniteSet(Ids) BY JournalAssumption
      <4> QED BY <4>1, <4>2, IdKinds, FS_Subset DEF Unacknowledged
    <3>2. AckAll = SetToSeq(S) BY DEF AckAll
    <3> HIDE DEF S
    <3>3. AckAll \in Seq(S) /\ \A x : Has(AckAll, x) => x \in S BY <3>1, <3>2, SetToSeqHas
    <3>4. AckAll \in Seq(Ids) BY <3>1, <3>3
    <3>5. \A x \in S : Acknowledgeable(x)
          BY <1>1, <3>1, IdKinds DEF Acknowledgeable, Done, Started, Relevant, PendingOK, Settled, RowOf, Waits, RowsOK
    <3>6. acks \in Seq(Ids) /\ \A x \in Ids : Has(acks, x) => Acknowledgeable(x) BY <1>1 DEF RepliesOK
    <3> QED BY <2>2, <3>3, <3>4, <3>5, <3>6, ConcatHas
  <2> QED BY <2>1, <2>2 DEF StartJob
<1> DEFINE written == (IF Connected /\ Unacknowledged # {} THEN AckBatch(released, acks', inFlight)
                       ELSE [flight |-> inFlight, out |-> <<>>]).out
           out == toOwner \o written
<1>8. /\ out \in Seq(Commands) /\ AcksLast(out)
      /\ \A c \in Commands : Has(out, c) =>
            Has(toOwner, c) \/ (c.kind = "acknowledge" /\ (Has(released, c.id) \/ Has(acks', c.id)))
  <2>1. written = <<>> \/ written = AckBatch(released, acks', inFlight).out OBVIOUS
  <2>2. toOwner \in Seq(Commands) /\ AcksLast(toOwner) /\ released \in Seq(Ids) BY <1>1 DEF CommandsOK, RepliesOK
  <2> HIDE DEF written
  <2> QED BY <1>7, <2>1, <2>2, WrittenAcks
<1>9. \A c \in Commands : Has(out, c) => Has(toOwner, c) \/ (CommandOK(c) /\ c.kind = "acknowledge")
  <2>1. \A x \in Ids : Has(released, x) => Acknowledgeable(x) BY <1>1 DEF RepliesOK
  <2> HIDE DEF out
  <2> QED BY <1>7, <1>8, <2>1 DEF Commands, CommandOK, Acknowledgeable, Done
<1>10. \/ Dispatch(j, out)
       \/ /\ Deliver(j, "unavailable") /\ toOwner' = out /\ UNCHANGED pending
       BY DEF StartJob
<1> HIDE DEF out
<1>11. \A c \in Commands : Has(out, c) => CommandOK(c) BY <1>1, <1>9 DEF CommandsOK
<1>12. /\ toOwner' \in Seq(Commands) /\ AcksLast(toOwner')
       /\ \A c \in Commands : Has(toOwner', c) => Has(out, c) \/ (c.kind = "request" /\ c.id = j)
       /\ pending' \in Seq(Ids) /\ Distinct(pending')
       /\ \A x : Has(pending', x) => Has(pending, x) \/ (x = j /\ settling' = settling)
       /\ \A x : Has(pending, x) => Has(pending', x)
  <2>1. CASE Dispatch(j, out)
    <3>1. \A c \in Commands : Has(out, c) /\ c.kind = "acknowledge" => Started(c.id) BY <1>11 DEF CommandOK
    <3>2. settling' = settling BY <2>1 DEF Dispatch
    <3> QED BY <1>1, <1>5, <1>8, <2>1, <3>1, <3>2, DispatchOK
  <2>2. CASE toOwner' = out /\ pending' = pending BY <1>1, <1>8, <2>2 DEF PendingOK
  <2> QED BY <1>10, <2>1, <2>2
<1>13. ASSUME NEW id \in Ids, id # j
       PROVE  /\ Started(id)' = Started(id) /\ Done(id)' = Done(id) /\ Waits(id)' = Waits(id)
              /\ Settled(id)' = Settled(id) /\ (Asks(id)' => Asks(id))
  <2>1. Has(pending', id) <=> Has(pending, id) BY <1>12, <1>13
  <2>2. Relevant(id)' = Relevant(id) BY <1>4, <2>1 DEF Relevant, Has
  <2>3. Started(id)' = Started(id) /\ Waits(id)' = Waits(id)
        BY <1>4, <1>6, <1>13, IdKinds DEF Started, Waits
  <2>4. Settled(id)' = Settled(id) BY <1>1, <1>4, <1>6, <1>13 DEF Settled, RowOf, RowsOK
  <2>5. Done(id)' = Done(id) BY <1>4, <2>2, <2>3 DEF Done
  <2>6. Asks(id)' => Asks(id)
    <3> SUFFICES ASSUME Asks(id)' PROVE Asks(id) OBVIOUS
    <3>1. PICK c \in Commands : Has(toOwner', c) /\ c.kind = "request" /\ c.id = id BY DEF Asks, Has
    <3> QED BY <1>9, <1>12, <1>13, <3>1 DEF Asks
  <2> QED BY <2>2, <2>3, <2>4, <2>5, <2>6
<1>14. Started(j)' BY <1>6 DEF Started
<1>15. Keeps
  <2>1. \A id \in Ids : id \in DOMAIN receipts' => id \in Known BY <1>2 DEF SameJournal, Known
  <2>2. ~Done(j) /\ ~Settled(j) /\ ~Waits(j)'
        BY <1>1, <1>4, <1>5 DEF Done, Settled, RowOf, RowsOK, Waits
  <2> QED BY <1>5, <1>13, <1>14, <2>1, <2>2 DEF Keeps
<1>16. /\ MessagesOK' /\ EntriesOK' /\ KeepsConcluded
       /\ \A id \in Ids : Gone(id) => Gone(id)'
       /\ \A id \in Ids : Acknowledgeable(id) => Acknowledgeable(id)'
       BY <1>2, <1>3, <1>15, ControllerStep
<1>17. CommandsOK'
  <2>1. \A c \in Commands : Has(out, c) => Has(toOwner, c) \/ CommandOK(c)'
        BY <1>9, <1>15, <1>16, CommandStays
  <2>2. \A c \in Commands : c.kind = "request" /\ c.id = j => CommandOK(c)' BY <1>14 DEF CommandOK
  <2> QED BY <1>1, <1>12, <1>15, <1>16, <2>1, <2>2, CommandsStep
<1>18. ~Settling(j) /\ \A i \in Jobs : i # j => Settling(i)' = Settling(i)
  <2>1. ~Settling(j) BY <1>1, <1>4 DEF Settling, RowsOK
  <2> QED BY <1>10, <2>1 DEF Settling, Deliver, Dispatch
<1>19. PendingOK'
  <2>1. \A id \in Ids : Has(pending', id) =>
           IF id \in Jobs THEN row'[id] = "running" /\ ~Settling(id)'
           ELSE query'[id] = "sent" \/ (query'[id] = "refused" /\ Has(released', id))
    <3> SUFFICES ASSUME NEW id \in Ids, Has(pending', id)
                 PROVE  IF id \in Jobs THEN row'[id] = "running" /\ ~Settling(id)'
                        ELSE query'[id] = "sent" \/ (query'[id] = "refused" /\ Has(released', id))
        OBVIOUS
    <3>1. CASE Has(pending, id)
      <4>1. id # j BY <1>1, <1>4, <3>1 DEF PendingOK
      <4> QED BY <1>1, <1>4, <1>6, <1>18, <3>1, <4>1 DEF PendingOK
    <3>2. CASE id = j /\ settling' = settling BY <1>6, <1>18, <3>2 DEF Settling
    <3> QED BY <1>12, <3>1, <3>2
  <2>2. \A i \in recovering : Started(i)' /\ (peer' # "down" => ~Asks(i)')
        BY <1>1, <1>4, <1>5, <1>13, IdKinds DEF PendingOK
  <2> QED BY <1>1, <1>4, <1>12, <2>1, <2>2 DEF PendingOK, Distinct, Has
<1>20. RepliesOK'
  <2>1. \A id \in Ids : Has(released', id) => id \in Queries /\ Has(pending', id) /\ Acknowledgeable(id)'
        BY <1>1, <1>4, <1>12, <1>16 DEF RepliesOK
  <2>2. \A id \in Ids : Has(acks', id) => Acknowledgeable(id)' BY <1>7, <1>16
  <2> QED BY <1>1, <1>4, <1>7, <2>1, <2>2 DEF RepliesOK, Distinct, Has
<1>21. ASSUME toOwner' = out, pending' = pending
       PROVE  Gone(j)'
  <2>1. ~Has(pending, j) /\ j \notin Known BY <1>1, <1>4, <1>5 DEF PendingOK, EntriesOK
  <2>2. Done(j)' BY <1>4, <1>14, <1>21, <2>1 DEF Done, Relevant, Has
  <2>3. ~Asks(j)'
    <3> SUFFICES ASSUME Asks(j)' PROVE FALSE OBVIOUS
    <3>1. PICK c \in Commands : Has(toOwner', c) /\ c.kind = "request" /\ c.id = j BY DEF Asks, Has
    <3>2. Has(toOwner, c) BY <1>9, <1>21, <3>1
    <3> QED BY <1>1, <1>5, <3>1, <3>2 DEF CommandsOK, CommandOK
  <2>4. j \notin DOMAIN receipts' BY <1>2, <2>1 DEF SameJournal, Known
  <2> QED BY <2>2, <2>3, <2>4 DEF Gone, Closed, Known
<1>22. RowsOK'
  <2>1. DOMAIN settling' \subseteq Jobs /\ \A i \in DOMAIN settling' :
            row'[i] = "running" /\ settling'[i] \in Codes
            /\ (settling'[i] \in {"unavailable", "worker-lost"} => Gone(i)')
    <3>1. CASE Dispatch(j, out)
      <4>1. settling' = settling BY <3>1 DEF Dispatch
      <4> QED BY <1>1, <1>4, <1>6, <1>16, <4>1, IdKinds DEF RowsOK
    <3>2. CASE Deliver(j, "unavailable") /\ toOwner' = out /\ UNCHANGED pending
      <4>1. /\ DOMAIN settling' = DOMAIN settling \cup {j} /\ settling'[j] = "unavailable"
            /\ \A i \in DOMAIN settling : i # j => settling'[i] = settling[i]
            BY <1>5, <3>2 DEF Deliver
      <4>2. "unavailable" \in Codes BY DEF Codes
      <4>3. Gone(j)' BY <1>21, <3>2
      <4> QED BY <1>1, <1>6, <1>16, <4>1, <4>2, <4>3, IdKinds DEF RowsOK
    <3> QED BY <1>10, <3>1, <3>2
  <2>2. \A i \in Jobs : row'[i] = "worker-lost" => Gone(i)' BY <1>1, <1>6, <1>16, IdKinds DEF RowsOK
  <2>3. \A r \in Queries : query'[r] = "answered" => Gone(r)' BY <1>1, <1>4, <1>16, IdKinds DEF RowsOK
  <2> QED BY <1>1, <1>4, <1>6, <2>1, <2>2, <2>3 DEF RowsOK
<1>23. PeersOK'
  <2>1. ~alive => toOwner' = <<>> /\ acks' = acks
        BY <1>1, <1>4 DEF PeersOK, Connected, StartJob
  <2>2. (~Connected => acks' = acks) /\ wire' = wire BY DEF StartJob, journalVars
  <2> QED BY <1>1, <1>2, <1>4, <2>1, <2>2 DEF PeersOK, SameJournal, Controller, Connected, Known
<1> QED BY <1>15, <1>3, <1>16, <1>17, <1>19, <1>20, <1>22, <1>23 DEF HandoffInv

LEMMA CommitOK ==
    ASSUME HandoffInv, NEW j \in Jobs, Commit(j)
    PROVE  HandoffInv' /\ Keeps
<1>1. TypeOK /\ CommandsOK /\ PendingOK /\ RepliesOK /\ RowsOK /\ PeersOK BY DEF HandoffInv
<1>2. SameJournal /\ ControllerFrame /\ wire' = wire
      BY DEF Commit, journalVars, SameJournal, ControllerFrame
<1>3. TypeOK' BY <1>1, <1>2, SameJournalOK
<1>4. /\ row' = [row EXCEPT ![j] = settling[j]] /\ Settling(j)
      /\ settling' = [x \in DOMAIN settling \ {j} |-> settling[x]]
      /\ UNCHANGED <<query, peer, alive, faults, recovering, cursor, pending, results>>
      BY DEF Commit
<1>5. j \in Ids /\ settling[j] \in Codes /\ row[j] = "running"
      /\ (settling[j] \in {"unavailable", "worker-lost"} => Gone(j))
      BY <1>1, <1>4, IdKinds DEF RowsOK, Settling
<1>6. /\ \A i \in Jobs : row'[i] = IF i = j THEN settling[j] ELSE row[i]
      /\ row' \in [Jobs -> {"absent", "running"} \cup Codes]
      BY <1>1, <1>4, <1>5 DEF RowsOK
<1>7. /\ released' = released /\ acks' \in Seq(Ids)
      /\ \A x \in Ids : Has(acks', x) => Has(acks, x) \/ x = j
      /\ toOwner' \in Seq(Commands) /\ AcksLast(toOwner')
      /\ \A c \in Commands : Has(toOwner', c) => Has(toOwner, c) \/
            (c.kind = "acknowledge" /\ (Has(released, c.id) \/ Has(acks', c.id)))
      /\ (acks' = acks /\ toOwner' = toOwner) \/ peer # "down"
  <2>1. CASE SendAcks(Connected, released, Add(acks, j), inFlight, toOwner) /\ Connected
    <3>1. Add(acks, j) \in Seq(Ids) /\ \A y : Has(Add(acks, j), y) <=> Has(acks, y) \/ y = j
          BY <1>1, <1>5, AddHas DEF RepliesOK
    <3>2. /\ released' = released /\ acks' = Add(acks, j) /\ toOwner' \in Seq(Commands) /\ AcksLast(toOwner')
          /\ \A c \in Commands : Has(toOwner', c) => Has(toOwner, c) \/
                (c.kind = "acknowledge" /\ (Has(released, c.id) \/ Has(Add(acks, j), c.id)))
          BY <1>1, <2>1, <3>1, SendAcksOK DEF RepliesOK, CommandsOK
    <3> QED BY <2>1, <3>1, <3>2 DEF Connected
  <2>2. CASE UNCHANGED toOwner /\ NoAcks BY <1>1, <2>2 DEF NoAcks, RepliesOK, CommandsOK
  <2> QED BY <2>1, <2>2 DEF Commit
<1>8. \A id \in Ids : /\ Done(id)' = Done(id) /\ Waits(id)' = Waits(id)
                      /\ Started(id)' = Started(id) /\ (Settled(id) => Settled(id)')
  <2>1. \A id \in Ids : Started(id)' = Started(id) /\ Waits(id)' = Waits(id)
        BY <1>4, <1>5, <1>6, CodesAreFinal DEF Started, Waits
  <2>2. \A id \in Ids : Settled(id) => Settled(id)'
        BY <1>1, <1>5, <1>6 DEF Settled, RowOf, RowsOK
  <2>3. \A id \in Ids : Done(id)' = Done(id) BY <1>4, <1>7, <2>1 DEF Done, Relevant, Has
  <2> QED BY <2>1, <2>2, <2>3
<1>9. \A id \in Ids : Asks(id)' => Asks(id)
  <2> SUFFICES ASSUME NEW id \in Ids, Asks(id)' PROVE Asks(id) OBVIOUS
  <2>1. PICK c \in Commands : Has(toOwner', c) /\ c.kind = "request" /\ c.id = id BY DEF Asks, Has
  <2> QED BY <1>7, <2>1 DEF Asks
<1>10. Keeps
  <2>1. \A id \in Ids : id \in DOMAIN receipts' => id \in Known BY <1>2 DEF SameJournal, Known
  <2> QED BY <1>8, <1>9, <2>1 DEF Keeps
<1>11. /\ MessagesOK' /\ EntriesOK' /\ KeepsConcluded
       /\ \A id \in Ids : Gone(id) => Gone(id)'
       /\ \A id \in Ids : Acknowledgeable(id) => Acknowledgeable(id)'
       BY <1>2, <1>3, <1>10, ControllerStep
<1>12. Acknowledgeable(j)'
  <2>1. Done(j) BY <1>1, <1>4, <1>5 DEF Done, Started, Relevant, PendingOK
  <2>2. Done(j)' BY <1>5, <1>8, <2>1
  <2>3. Settled(j)' BY <1>5, <1>6, CodesAreFinal DEF Settled, RowOf
  <2>4. ~Waits(j)' BY IdKinds DEF Waits
  <2> QED BY <2>2, <2>3, <2>4 DEF Acknowledgeable
<1>13. \A x \in Ids : Has(acks', x) \/ Has(released, x) => Acknowledgeable(x)'
       BY <1>1, <1>7, <1>11, <1>12 DEF RepliesOK
<1>14. CommandsOK'
  <2>1. \A c \in Commands : Has(toOwner', c) => Has(toOwner, c) \/ CommandOK(c)'
    <3>1. \A c \in Commands : c.kind = "acknowledge" /\ (Has(released, c.id) \/ Has(acks', c.id)) => CommandOK(c)'
          BY <1>13 DEF CommandOK, Acknowledgeable, Done, Commands
    <3> QED BY <1>7, <3>1
  <2> QED BY <1>1, <1>7, <1>10, <1>11, <2>1, CommandsStep
<1>15. PendingOK'
  <2>1. \A id \in Ids : Has(pending', id) =>
           IF id \in Jobs THEN row'[id] = "running" /\ ~Settling(id)'
           ELSE query'[id] = "sent" \/ (query'[id] = "refused" /\ Has(released', id))
        BY <1>1, <1>4, <1>6, <1>7 DEF PendingOK, Settling
  <2>2. \A i \in recovering : Started(i)' /\ (peer' # "down" => ~Asks(i)')
        BY <1>1, <1>4, <1>8, <1>9, IdKinds DEF PendingOK
  <2> QED BY <1>1, <1>4, <2>1, <2>2 DEF PendingOK, Distinct, Has
<1>16. RepliesOK'
  <2>1. \A id \in Ids : Has(released', id) => id \in Queries /\ Has(pending', id) /\ Acknowledgeable(id)'
        BY <1>1, <1>4, <1>7, <1>11 DEF RepliesOK
  <2>2. \A id \in Ids : Has(acks', id) => Acknowledgeable(id)' BY <1>13
  <2> QED BY <1>1, <1>4, <1>7, <2>1, <2>2 DEF RepliesOK, Distinct, Has
<1>17. RowsOK'
  <2>1. DOMAIN settling' \subseteq Jobs /\ \A i \in DOMAIN settling' :
            row'[i] = "running" /\ settling'[i] \in Codes
            /\ (settling'[i] \in {"unavailable", "worker-lost"} => Gone(i)')
        BY <1>1, <1>4, <1>6, <1>11, IdKinds DEF RowsOK
  <2>2. \A i \in Jobs : row'[i] = "worker-lost" => Gone(i)' BY <1>1, <1>5, <1>6, <1>11, IdKinds DEF RowsOK
  <2>3. \A r \in Queries : query'[r] = "answered" => Gone(r)' BY <1>1, <1>4, <1>11, IdKinds DEF RowsOK
  <2> QED BY <1>1, <1>4, <1>6, <2>1, <2>2, <2>3 DEF RowsOK
<1>18. PeersOK' BY <1>1, <1>2, <1>4, <1>7 DEF PeersOK, SameJournal, Controller, Known
<1> QED BY <1>10, <1>3, <1>11, <1>14, <1>15, <1>16, <1>17, <1>18 DEF HandoffInv

LEMMA ReadMessage ==
    ASSUME HandoffInv, Read, wire # <<>>, peer # "down"
    PROVE  /\ SameJournal /\ ControllerFrame /\ TypeOK'
           /\ Msg \in WireMessages /\ MessageOK(Msg) /\ (~alive => FALSE)
<1>1. TypeOK /\ MessagesOK /\ PeersOK BY DEF HandoffInv
<1>2. Msg \in WireMessages /\ Has(wire, Msg) BY <1>1, TailHas DEF MessagesOK, Msg
<1>3. MessageOK(Msg) BY <1>1, <1>2 DEF MessagesOK
<1> QED BY <1>1, <1>2, <1>3, ReadFrame DEF PeersOK

LEMMA GetAcknowledgedOK ==
    ASSUME HandoffInv, GetAcknowledged
    PROVE  HandoffInv' /\ Keeps
<1>1. TypeOK /\ CommandsOK /\ PendingOK /\ RepliesOK /\ RowsOK /\ PeersOK BY DEF HandoffInv
<1>2. /\ SameJournal /\ ControllerFrame /\ TypeOK'
      /\ Msg \in WireMessages /\ MessageOK(Msg) /\ Msg.kind = "acknowledged" /\ peer # "down" /\ alive
      BY ReadMessage DEF GetAcknowledged, Incoming, Msg
<1> PICK id \in Ids : id = Msg.id BY <1>2 DEF MessageOK
<1>3. Started(id) /\ (Waits(id) => Gone(id)) BY <1>2 DEF MessageOK
<1>4. /\ UNCHANGED <<row, peer, alive, faults, recovering, cursor, settling>>
      /\ results' = results \ {id}
      /\ IF Has(released, id)
         THEN pending' = Without(pending, id) /\ query' = [query EXCEPT ![id] = Told(query[id])]
         ELSE UNCHANGED <<pending, query>>
      /\ SendAcks(Connected, Without(released, id), Without(acks, id), inFlight \ {id}, toOwner)
      BY DEF GetAcknowledged, durable, Take
<1>5. /\ Without(released, id) \in Seq(Ids) /\ Distinct(Without(released, id)) /\ Without(acks, id) \in Seq(Ids)
      /\ \A y : Has(Without(released, id), y) => Has(released, y) /\ y # id
      /\ \A y : Has(released, y) /\ y # id => Has(Without(released, id), y)
      /\ \A y : Has(Without(acks, id), y) => Has(acks, y)
      BY <1>1, WithoutHas DEF RepliesOK
<1>6. /\ released' = Without(released, id) /\ acks' = Without(acks, id)
      /\ toOwner' \in Seq(Commands) /\ AcksLast(toOwner')
      /\ \A c \in Commands : Has(toOwner', c) => Has(toOwner, c) \/
            (c.kind = "acknowledge" /\ (Has(Without(released, id), c.id) \/ Has(Without(acks, id), c.id)))
      BY <1>1, <1>4, <1>5, SendAcksOK DEF CommandsOK
<1>7. /\ pending' \in Seq(Ids) /\ Distinct(pending')
      /\ \A y : Has(pending', y) => Has(pending, y) /\ (y = id => ~Has(released, id))
      /\ \A y : Has(pending, y) /\ y # id => Has(pending', y)
      BY <1>1, <1>4, WithoutHas DEF PendingOK
<1>8. /\ query' \in [Queries -> {"new", "sent", "refused", "answered"}]
      /\ \A q \in Queries : query'[q] = query[q] \/ (q = id /\ query[q] = "sent" /\ query'[q] = "answered")
      BY <1>1, <1>4 DEF RowsOK, RepliesOK, Told
<1>9. \A x \in Ids : Relevant(x)' => Relevant(x)
  <2> SUFFICES ASSUME NEW x \in Ids, Relevant(x)' PROVE Relevant(x) OBVIOUS
  <2>1. Has(pending', x) /\ ~Has(released', x) BY DEF Relevant, Has
  <2>2. Has(pending, x) /\ (x = id => ~Has(released, id)) BY <1>7, <2>1
  <2>3. ~Has(released, x) BY <1>5, <1>6, <2>1, <2>2
  <2> QED BY <2>2, <2>3 DEF Relevant
<1>10. \A x \in Ids : Asks(x)' => Asks(x)
  <2> SUFFICES ASSUME NEW x \in Ids, Asks(x)' PROVE Asks(x) OBVIOUS
  <2>1. PICK c \in Commands : Has(toOwner', c) /\ c.kind = "request" /\ c.id = x BY DEF Asks, Has
  <2> QED BY <1>6, <2>1 DEF Asks
<1>11. Keeps
  <2>1. \A x \in Ids : x \in DOMAIN receipts' => x \in Known BY <1>2 DEF SameJournal, Known
  <2>2. \A x \in Ids : Started(x)' = Started(x) /\ (Waits(x)' => Waits(x))
        BY <1>4, <1>8, IdKinds DEF Started, Waits
  <2>3. \A x \in Ids : Settled(x)' = Settled(x) BY <1>4 DEF Settled, RowOf
  <2>4. \A x \in Ids : Done(x) => Done(x)' BY <1>4, <1>9, <2>2 DEF Done
  <2> QED BY <1>10, <2>1, <2>2, <2>3, <2>4 DEF Keeps
<1>12. /\ MessagesOK' /\ EntriesOK' /\ KeepsConcluded
       /\ \A x \in Ids : Gone(x) => Gone(x)'
       /\ \A x \in Ids : Acknowledgeable(x) => Acknowledgeable(x)'
       BY <1>2, <1>11, ControllerStep
<1>13. \A x \in Ids : Has(Without(released, id), x) \/ Has(Without(acks, id), x) => Acknowledgeable(x)'
       BY <1>1, <1>5, <1>12 DEF RepliesOK
<1>14. CommandsOK'
  <2>1. \A c \in Commands : Has(toOwner', c) => Has(toOwner, c) \/ CommandOK(c)'
    <3>1. \A c \in Commands :
             c.kind = "acknowledge" /\ (Has(Without(released, id), c.id) \/ Has(Without(acks, id), c.id)) => CommandOK(c)'
          BY <1>13 DEF CommandOK, Acknowledgeable, Done, Commands
    <3> QED BY <1>6, <3>1
  <2> QED BY <1>1, <1>6, <1>11, <1>12, <2>1, CommandsStep
<1>15. PendingOK'
  <2>1. ASSUME NEW x \in Ids, Has(pending', x)
        PROVE  IF x \in Jobs THEN row'[x] = "running" /\ ~Settling(x)'
               ELSE query'[x] = "sent" \/ (query'[x] = "refused" /\ Has(released', x))
    <3>1. Has(pending, x) /\ (x = id => ~Has(released, id)) BY <1>7, <2>1
    <3>2. CASE x \in Jobs BY <1>1, <1>4, <3>1, <3>2 DEF PendingOK, Settling
    <3>3. CASE x \notin Jobs
      <4>1. query[x] = "sent" \/ (query[x] = "refused" /\ Has(released, x)) BY <1>1, <3>1, <3>3 DEF PendingOK
      <4>2. query'[x] = query[x] BY <1>4, <3>1, <3>3, <1>8, IdKinds
      <4> QED BY <1>5, <1>6, <3>1, <3>3, <4>1, <4>2
    <3> QED BY <3>2, <3>3
  <2>2. \A i \in recovering : Started(i)' /\ (peer' # "down" => ~Asks(i)')
        BY <1>1, <1>4, <1>10, <1>11, IdKinds DEF PendingOK, Keeps
  <2> QED BY <1>1, <1>4, <1>7, <2>1, <2>2 DEF PendingOK, Distinct, Has
<1>16. RepliesOK'
  <2>1. \A x \in Ids : Has(released', x) => x \in Queries /\ Has(pending', x) /\ Acknowledgeable(x)'
        BY <1>1, <1>5, <1>6, <1>7, <1>12 DEF RepliesOK
  <2>2. \A x \in Ids : Has(acks', x) => Acknowledgeable(x)' BY <1>6, <1>13
  <2> QED BY <1>1, <1>4, <1>5, <1>6, <2>1, <2>2 DEF RepliesOK, Distinct, Has
<1>17. RowsOK'
  <2>1. \A r \in Queries : query'[r] = "answered" => Gone(r)'
        BY <1>1, <1>3, <1>8, <1>12, IdKinds DEF RowsOK, Waits
  <2> QED BY <1>1, <1>4, <1>8, <1>12, <2>1, IdKinds DEF RowsOK
<1>18. PeersOK' BY <1>1, <1>2, <1>4 DEF PeersOK, SameJournal, Controller
<1> QED BY <1>11, <1>2, <1>12, <1>14, <1>15, <1>16, <1>17, <1>18 DEF HandoffInv

LEMMA GetResponseOK ==
    ASSUME HandoffInv, GetResponse
    PROVE  HandoffInv' /\ Keeps
<1>1. TypeOK /\ CommandsOK /\ PendingOK /\ RepliesOK /\ RowsOK /\ PeersOK BY DEF HandoffInv
<1>2. /\ SameJournal /\ ControllerFrame /\ TypeOK'
      /\ Msg \in WireMessages /\ MessageOK(Msg) /\ Msg.kind \in {"response", "error"} /\ peer # "down" /\ alive
      BY ReadMessage DEF GetResponse, Incoming, Msg
<1> PICK id \in Ids : id = Msg.id BY <1>2 DEF MessageOK
<1> PICK outcome : outcome = Msg.outcome OBVIOUS
<1>3. \/ outcome \in TerminalValues /\ Concluded(id)
      \/ outcome = "capacity"
      \/ outcome = "worker-lost" /\ id \in Jobs /\ Gone(id)
      BY <1>2 DEF MessageOK
<1>4. /\ UNCHANGED <<row, peer, alive, faults, recovering, cursor>>
      /\ Has(pending, id) /\ ~Has(released, id)
      BY DEF GetResponse, durable, Relevant
<1>5. CASE id \in Jobs
  <2>1. /\ pending' = Without(pending, id) /\ Deliver(id, outcome)
        /\ results' = results \/ results' = results \cup {id}
        /\ UNCHANGED <<toOwner, query, released, acks>>
        BY <1>5 DEF GetResponse, AcknowledgedLater, Take, NoAcks
  <2>2. /\ pending' \in Seq(Ids) /\ Distinct(pending')
        /\ \A y : Has(pending', y) => Has(pending, y) /\ y # id
        /\ \A y : Has(pending, y) /\ y # id => Has(pending', y)
        BY <1>1, <2>1, WithoutHas DEF PendingOK
  <2>3. \A x \in Ids : Relevant(x)' => Relevant(x) BY <2>1, <2>2 DEF Relevant, Has
  <2>4. Keeps
    <3>1. \A x \in Ids : x \in DOMAIN receipts' => x \in Known BY <1>2 DEF SameJournal, Known
    <3>2. \A x \in Ids : Started(x)' = Started(x) /\ Waits(x)' = Waits(x) /\ Settled(x)' = Settled(x)
          BY <1>4, <2>1 DEF Started, Waits, Settled, RowOf
    <3>3. \A x \in Ids : Done(x) => Done(x)' BY <1>4, <2>3, <3>2 DEF Done
    <3>4. \A x \in Ids : Asks(x)' = Asks(x) BY <2>1 DEF Asks, Has
    <3> QED BY <3>1, <3>2, <3>3, <3>4 DEF Keeps
  <2>5. /\ MessagesOK' /\ EntriesOK' /\ KeepsConcluded
        /\ \A x \in Ids : Gone(x) => Gone(x)'
        /\ \A x \in Ids : Acknowledgeable(x) => Acknowledgeable(x)'
        BY <1>2, <2>4, ControllerStep
  <2>6. CommandsOK' BY <1>1, <2>1, <2>4, <2>5, CommandsStep DEF CommandsOK
  <2>7. /\ DOMAIN settling' = DOMAIN settling \cup {id} /\ settling'[id] = outcome
        /\ \A i \in DOMAIN settling : i # id => settling'[i] = settling[i]
        BY <2>1 DEF Deliver
  <2>8. PendingOK'
    <3>1. \A x \in Ids : Has(pending', x) =>
             IF x \in Jobs THEN row'[x] = "running" /\ ~Settling(x)'
             ELSE query'[x] = "sent" \/ (query'[x] = "refused" /\ Has(released', x))
          BY <1>1, <1>4, <2>1, <2>2, <2>7 DEF PendingOK, Settling
    <3>2. \A i \in recovering : Started(i)' /\ (peer' # "down" => ~Asks(i)')
      <4>1. \A x \in Ids : Started(x)' = Started(x) /\ Asks(x)' = Asks(x)
            BY <1>4, <2>1 DEF Started, Asks, Has
      <4> QED BY <1>1, <1>4, <4>1, IdKinds DEF PendingOK
    <3> QED BY <1>1, <1>4, <2>2, <3>1, <3>2 DEF PendingOK, Distinct, Has
  <2>9. RepliesOK'
    <3>1. \A x \in Ids : Has(released', x) => x \in Queries /\ Has(pending', x) /\ Acknowledgeable(x)'
          BY <1>1, <1>4, <2>1, <2>2, <2>5 DEF RepliesOK
    <3>2. \A x \in Ids : Has(acks', x) => Acknowledgeable(x)' BY <1>1, <2>1, <2>5 DEF RepliesOK
    <3> QED BY <1>1, <1>5, <2>1, <3>1, <3>2 DEF RepliesOK, Distinct, Has
  <2>10. RowsOK'
    <3>1. outcome \in Codes /\ (outcome \in {"unavailable", "worker-lost"} => Gone(id)')
          BY <1>3, <2>5, CodesAreFinal DEF Codes, Refusals
    <3>2. row[id] = "running" BY <1>1, <1>4, <1>5 DEF PendingOK
    <3> QED BY <1>1, <1>4, <1>5, <2>1, <2>5, <2>7, <3>1, <3>2, IdKinds DEF RowsOK
  <2>11. PeersOK' BY <1>1, <1>2, <1>4 DEF PeersOK, SameJournal, Controller
  <2> QED BY <1>2, <2>4, <2>5, <2>6, <2>8, <2>9, <2>10, <2>11 DEF HandoffInv
<1>6. CASE id \notin Jobs
  <2>1. id \in Queries /\ outcome # "worker-lost" BY <1>3, <1>6, IdKinds, CodesAreFinal
  <2>2. /\ SendAcks(Connected, Append(released, id), Add(acks, id), inFlight, toOwner)
        /\ query' = IF outcome = "capacity" THEN [query EXCEPT ![id] = "refused"] ELSE query
        /\ UNCHANGED <<pending, results, settling>>
        BY <1>6 DEF GetResponse, AcknowledgedLater
  <2> DEFINE rel == Append(released, id)
             ack == Add(acks, id)
  <2>3. /\ rel \in Seq(Ids) /\ Distinct(rel) /\ ack \in Seq(Ids)
        /\ \A y : Has(rel, y) <=> Has(released, y) \/ y = id
        /\ \A y : Has(ack, y) <=> Has(acks, y) \/ y = id
        BY <1>1, <1>4, AppendHas, AddHas DEF RepliesOK
  <2> HIDE DEF rel, ack
  <2>4. /\ released' = rel /\ acks' = ack /\ toOwner' \in Seq(Commands) /\ AcksLast(toOwner')
        /\ \A c \in Commands : Has(toOwner', c) => Has(toOwner, c) \/
              (c.kind = "acknowledge" /\ (Has(rel, c.id) \/ Has(ack, c.id)))
        BY <1>1, <2>2, <2>3, SendAcksOK DEF CommandsOK, rel, ack
  <2>5. /\ query' \in [Queries -> {"new", "sent", "refused", "answered"}]
        /\ \A q \in Queries : query'[q] = query[q] \/ (q = id /\ query'[q] = "refused")
        /\ outcome = "capacity" => query'[id] = "refused"
        BY <1>1, <2>1, <2>2 DEF RowsOK
  <2>6. Started(id) /\ query[id] # "new" BY <1>1, <1>4, <1>6, <2>1 DEF PendingOK, Started
  <2>7. \A x \in Ids : Relevant(x)' => Relevant(x) /\ x # id
    <3> SUFFICES ASSUME NEW x \in Ids, Relevant(x)' PROVE Relevant(x) /\ x # id OBVIOUS
    <3>1. Has(pending, x) /\ ~Has(rel, x) BY <2>2, <2>4 DEF Relevant, Has
    <3> QED BY <2>3, <3>1 DEF Relevant
  <2>8. \A x \in Ids : Asks(x)' => Asks(x)
    <3> SUFFICES ASSUME NEW x \in Ids, Asks(x)' PROVE Asks(x) OBVIOUS
    <3>1. PICK c \in Commands : Has(toOwner', c) /\ c.kind = "request" /\ c.id = x BY DEF Asks, Has
    <3> QED BY <2>4, <3>1 DEF Asks
  <2>9. \A x \in Ids : (Started(x) => Started(x)') /\ (Waits(x)' => Waits(x))
        BY <1>4, <2>5, IdKinds DEF Started, Waits
  <2>10. Keeps
    <3>1. \A x \in Ids : x \in DOMAIN receipts' => x \in Known BY <1>2 DEF SameJournal, Known
    <3>2. \A x \in Ids : Settled(x)' = Settled(x) BY <1>4 DEF Settled, RowOf
    <3>3. \A x \in Ids : Done(x) => Done(x)' BY <1>4, <2>7, <2>9 DEF Done
    <3> QED BY <2>8, <2>9, <3>1, <3>2, <3>3 DEF Keeps
  <2>11. /\ MessagesOK' /\ EntriesOK' /\ KeepsConcluded
         /\ \A x \in Ids : Gone(x) => Gone(x)'
         /\ \A x \in Ids : Acknowledgeable(x) => Acknowledgeable(x)'
         BY <1>2, <2>10, ControllerStep
  <2>12. Acknowledgeable(id)'
    <3>1. Done(id)' BY <2>6, <2>7, <2>9 DEF Done
    <3>2. Waits(id)' => Concluded(id)'
      <4>1. CASE outcome = "capacity" BY <2>5, <4>1 DEF Waits
      <4>2. CASE Concluded(id) BY <2>11, <4>2 DEF KeepsConcluded
      <4> QED BY <1>3, <1>6, <4>1, <4>2
    <3> QED BY <1>6, <3>1, <3>2 DEF Acknowledgeable
  <2>13. \A x \in Ids : Has(rel, x) \/ Has(ack, x) => Acknowledgeable(x)'
         BY <1>1, <2>3, <2>11, <2>12 DEF RepliesOK
  <2>14. CommandsOK'
    <3>1. \A c \in Commands : c.kind = "acknowledge" /\ (Has(rel, c.id) \/ Has(ack, c.id)) => CommandOK(c)'
          BY <2>13 DEF CommandOK, Acknowledgeable, Done, Commands
    <3>2. \A c \in Commands : Has(toOwner', c) => Has(toOwner, c) \/ CommandOK(c)' BY <2>4, <3>1
    <3> QED BY <1>1, <2>4, <2>10, <2>11, <3>2, CommandsStep
  <2>15. PendingOK'
    <3>1. ASSUME NEW x \in Ids, Has(pending', x)
          PROVE  IF x \in Jobs THEN row'[x] = "running" /\ ~Settling(x)'
                 ELSE query'[x] = "sent" \/ (query'[x] = "refused" /\ Has(released', x))
      <4>1. Has(pending, x) BY <2>2, <3>1
      <4>2. CASE x \in Jobs BY <1>1, <1>4, <2>2, <4>1, <4>2 DEF PendingOK, Settling
      <4>3. CASE x \notin Jobs BY <1>1, <2>3, <2>4, <2>5, <4>1, <4>3, IdKinds DEF PendingOK
      <4> QED BY <4>2, <4>3
    <3>2. \A i \in recovering : Started(i)' /\ (peer' # "down" => ~Asks(i)')
          BY <1>1, <1>4, <2>8, <2>9, IdKinds DEF PendingOK
    <3> QED BY <1>1, <1>4, <2>2, <3>1, <3>2 DEF PendingOK, Distinct, Has
  <2>16. RepliesOK'
    <3>1. \A x \in Ids : Has(released', x) => x \in Queries /\ Has(pending', x) /\ Acknowledgeable(x)'
          BY <1>1, <1>4, <2>1, <2>2, <2>3, <2>4, <2>13 DEF RepliesOK
    <3>2. \A x \in Ids : Has(acks', x) => Acknowledgeable(x)' BY <2>4, <2>13
    <3> QED BY <1>1, <2>2, <2>3, <2>4, <3>1, <3>2 DEF RepliesOK, Distinct, Has
  <2>17. RowsOK'
    <3>1. \A r \in Queries : query'[r] = "answered" => Gone(r)' BY <1>1, <2>5, <2>11, IdKinds DEF RowsOK
    <3> QED BY <1>1, <1>4, <2>2, <2>5, <2>11, <3>1, IdKinds DEF RowsOK
  <2>18. PeersOK' BY <1>1, <1>2, <1>4 DEF PeersOK, SameJournal, Controller
  <2> QED BY <1>2, <2>10, <2>11, <2>14, <2>15, <2>16, <2>17, <2>18 DEF HandoffInv
<1> QED BY <1>5, <1>6

-----------------------------------------------------------------------------
(* Restarts, and a new link *)

LEMMA NothingHas ==
    /\ \A S : <<>> \in Seq(S) /\ \A x : ~Has(<<>>, x)
    /\ Distinct(<<>>) /\ AcksLast(<<>>)
BY DEF Has, Distinct, AcksLast

LEMMA ControllerRestartsOK ==
    ASSUME HandoffInv, ControllerRestarts
    PROVE  HandoffInv' /\ Keeps
<1>1. TypeOK /\ CommandsOK /\ PendingOK /\ RepliesOK /\ RowsOK /\ PeersOK BY DEF HandoffInv
<1>2. /\ SameJournal /\ ControllerFrame /\ TypeOK' /\ peer' = "down"
      /\ toOwner' \in Seq(Commands) /\ AcksLast(toOwner')
      /\ \A c \in Commands : Has(toOwner', c) => Has(toOwner, c)
      /\ ~alive => wire' = <<>> /\ toOwner' = <<>>
  <2>1. CASE peer = "down" /\ UNCHANGED <<journalVars, peer, toOwner>>
    <3>1. SameJournal /\ ControllerFrame BY <2>1 DEF journalVars, SameJournal, ControllerFrame
    <3>2. ~alive => wire' = <<>> BY <1>1, <2>1 DEF journalVars, PeersOK
    <3> QED BY <1>1, <2>1, <3>1, <3>2, SameJournalOK DEF CommandsOK, PeersOK
  <2>2. CASE \E n \in 0 .. Len(toOwner) : peer # "down" /\ Lost(n) BY <1>1, <2>2, LostOK DEF PeersOK
  <2> QED BY <2>1, <2>2 DEF ControllerRestarts
<1> DEFINE running == {j \in Jobs : row[j] = "running"}
<1>3. /\ pending' = SetToSeq(running) /\ recovering' = running
      /\ cursor' = [id \in Ids |-> 0] /\ released' = <<>> /\ acks' = <<>> /\ results' = {} /\ settling' = <<>>
      /\ faults' = [faults EXCEPT !.crashes = faults.crashes + 1] /\ faults.crashes < MaxCrashes
      /\ UNCHANGED <<row, query, alive>>
      BY DEF ControllerRestarts, durable
<1>4. IsFiniteSet(running) BY IdKinds, FS_Subset, JournalAssumption
<1> HIDE DEF running
<1>5. /\ pending' \in Seq(Ids) /\ Distinct(pending')
      /\ \A x : Has(pending', x) => x \in running
  <2>1. SetToSeq(running) \in Seq(running) /\ running \subseteq Ids BY <1>4, IdKinds, SetToSeqHas DEF running
  <2> QED BY <1>3, <1>4, <2>1, SetToSeqHas
<1>6. \A x \in Ids : Asks(x)' => Asks(x)
  <2> SUFFICES ASSUME NEW x \in Ids, Asks(x)' PROVE Asks(x) OBVIOUS
  <2>1. PICK c \in Commands : Has(toOwner', c) /\ c.kind = "request" /\ c.id = x BY DEF Asks, Has
  <2> QED BY <1>2, <2>1 DEF Asks
<1>7. Keeps
  <2>1. \A x \in Ids : x \in DOMAIN receipts' => x \in Known BY <1>2 DEF SameJournal, Known
  <2>2. \A x \in Ids : Started(x)' = Started(x) /\ Waits(x)' = Waits(x) /\ Settled(x)' = Settled(x)
        BY <1>3 DEF Started, Waits, Settled, RowOf
  <2>3. \A x \in Ids : Relevant(x)' => x \in recovering' BY <1>3, <1>5 DEF Relevant, Has
  <2>4. \A x \in Ids : Done(x) => Done(x)' BY <2>2, <2>3 DEF Done
  <2> QED BY <1>6, <2>1, <2>2, <2>4 DEF Keeps
<1>8. /\ MessagesOK' /\ EntriesOK' /\ KeepsConcluded
      /\ \A x \in Ids : Gone(x) => Gone(x)'
      BY <1>2, <1>7, ControllerStep
<1>9. CommandsOK' BY <1>1, <1>2, <1>7, <1>8, CommandsStep
<1>10. settling' = <<>> /\ DOMAIN settling' = {} BY <1>3
<1>11. PendingOK'
  <2>1. \A x \in running : x \in Jobs /\ row'[x] = "running" /\ Started(x)' BY <1>3 DEF running, Started
  <2>2. \A x \in Ids : Has(pending', x) => x \in Jobs /\ row'[x] = "running" /\ ~Settling(x)'
        BY <1>5, <1>10, <2>1 DEF Settling
  <2> QED BY <1>2, <1>3, <1>5, <2>1, <2>2 DEF PendingOK, Distinct, Has
<1>12. RepliesOK' BY <1>3, NothingHas DEF RepliesOK, Distinct, Has
<1>13. RowsOK' BY <1>1, <1>3, <1>8, <1>10, IdKinds DEF RowsOK
<1>14. PeersOK'
  <2>1. /\ faults'.crashes = faults.crashes + 1
        /\ faults' = [drops |-> faults'.drops, crashes |-> faults'.crashes, exits |-> faults'.exits]
        BY <1>1, <1>3 DEF PeersOK
  <2>2. faults'.crashes \in 0 .. MaxCrashes BY <1>1, <1>3, <2>1, HandoffAssumption DEF PeersOK
  <2>3. 0 \in Numbers BY JournalAssumption DEF Numbers
  <2> QED BY <1>1, <1>2, <1>3, <2>1, <2>2, <2>3 DEF PeersOK, SameJournal, Known
<1> QED BY <1>7, <1>2, <1>8, <1>9, <1>11, <1>12, <1>13, <1>14 DEF HandoffInv

LEMMA SeeExitOK ==
    ASSUME HandoffInv, SeeExit
    PROVE  HandoffInv' /\ Keeps
<1>1. TypeOK /\ CommandsOK /\ PendingOK /\ RepliesOK /\ RowsOK /\ PeersOK BY DEF HandoffInv
<1>2. SameJournal /\ ControllerFrame /\ wire' = wire
      BY DEF SeeExit, journalVars, SameJournal, ControllerFrame
<1>3. TypeOK' BY <1>1, <1>2, SameJournalOK
<1>4. /\ pending' = <<>> /\ recovering' = {} /\ released' = <<>> /\ acks' = <<>> /\ results' = {}
      /\ UNCHANGED <<row, peer, cursor, faults, toOwner>> /\ peer = "down" /\ alive' = TRUE
      /\ query' = [r \in Queries |-> IF Has(pending, r) THEN Told(query[r]) ELSE query[r]]
      BY DEF SeeExit, ForgottenAll, durable
<1>5. /\ DOMAIN settling' = DOMAIN settling \cup (Range(pending) \cap Jobs)
      /\ \A j \in DOMAIN settling' :
            settling'[j] = IF j \in DOMAIN settling THEN settling[j] ELSE "worker-lost"
      BY DEF SeeExit
<1>6. Known = {} /\ toOwner = <<>> /\ \A x \in Ids : ~Asks(x) /\ ~Asks(x)'
      BY <1>1, <1>4, NothingHas DEF SeeExit, PeersOK, Asks, Has
<1>7. \A x \in Ids : ~Relevant(x)' BY <1>4 DEF Relevant, Has
<1>8. /\ query' \in [Queries -> {"new", "sent", "refused", "answered"}]
      /\ \A q \in Queries : query'[q] = query[q] \/ (query[q] = "sent" /\ query'[q] = "answered")
      BY <1>1, <1>4 DEF RowsOK, Told
<1>9. \A x \in Ids : Started(x)' = Started(x) /\ (Waits(x)' => Waits(x))
      BY <1>4, <1>8, IdKinds DEF Started, Waits
<1>10. Keeps
  <2>1. \A x \in Ids : x \in DOMAIN receipts' => x \in Known BY <1>2 DEF SameJournal, Known
  <2>2. \A x \in Ids : Settled(x)' = Settled(x) BY <1>4 DEF Settled, RowOf
  <2>3. \A x \in Ids : Done(x) => Done(x)' BY <1>7, <1>9 DEF Done
  <2> QED BY <1>6, <1>9, <2>1, <2>2, <2>3 DEF Keeps
<1>11. /\ MessagesOK' /\ EntriesOK' /\ KeepsConcluded
       /\ \A x \in Ids : Gone(x) => Gone(x)'
       BY <1>2, <1>3, <1>10, ControllerStep
<1>12. CommandsOK' BY <1>1, <1>4, <1>10, <1>11, CommandsStep DEF CommandsOK
<1>13. PendingOK' BY <1>4, NothingHas DEF PendingOK, Distinct, Has
<1>14. RepliesOK' BY <1>4, NothingHas DEF RepliesOK, Distinct, Has
<1>15. \A x \in Ids : Started(x) => Gone(x)'
  <2>1. DOMAIN receipts' = {} BY <1>2, <1>6 DEF SameJournal, Known
  <2> QED BY <1>6, <1>7, <1>9, <2>1 DEF Gone, Closed, Done, Known
<1>16. RowsOK'
  <2>1. \A x \in Range(pending) \cap Jobs : row[x] = "running"
    <3>1. \A x \in Range(pending) : Has(pending, x) BY DEF Range, Has
    <3> QED BY <1>1, <3>1, IdKinds DEF PendingOK
  <2>2. "worker-lost" \in Codes BY DEF Codes, Refusals
  <2>3. ASSUME NEW j \in DOMAIN settling'
        PROVE  j \in Jobs /\ row'[j] = "running" /\ settling'[j] \in Codes /\ Gone(j)'
    <3>1. j \in Jobs /\ row[j] = "running" /\ settling'[j] \in Codes BY <1>1, <1>5, <2>1, <2>2, <2>3 DEF RowsOK
    <3>2. Started(j) BY <3>1 DEF Started
    <3> QED BY <1>4, <1>15, <3>1, <3>2, IdKinds
  <2>4. \A j \in Jobs : row'[j] = "worker-lost" => Gone(j)' BY <1>1, <1>4, <1>11, IdKinds DEF RowsOK
  <2>5. \A r \in Queries : query'[r] = "answered" => Gone(r)'
        BY <1>8, <1>9, <1>15, IdKinds DEF Started
  <2> QED BY <1>1, <1>4, <1>8, <2>3, <2>4, <2>5 DEF RowsOK
<1>17. PeersOK' BY <1>1, <1>4 DEF PeersOK
<1> QED BY <1>10, <1>3, <1>11, <1>12, <1>13, <1>14, <1>16, <1>17 DEF HandoffInv

\* A link starts empty; a new controller drops the outcomes nobody asks for.
LEMMA EstablishOK ==
    ASSUME HandoffInv, Establish
    PROVE  HandoffInv' /\ Keeps
<1>1. TypeOK /\ CommandsOK /\ MessagesOK /\ EntriesOK /\ PendingOK /\ RepliesOK /\ RowsOK /\ PeersOK
      BY DEF HandoffInv
<1> DEFINE ready == Message("ready", None, None, 0, {}, None)
<1>2. Connect(Controller, <<ready>>) BY DEF Establish
<1>3. Controller \in Controllers
  <2>1. faults.crashes + 1 \in 1 .. MaxCrashes + 1 BY <1>1, HandoffAssumption DEF PeersOK
  <2> QED BY <2>1, HandoffAssumption DEF Controller
<1>4. TypeOK' BY <1>1, <1>2, <1>3, ConnectOK
<1>5. /\ acked' = acked /\ aux' = aux /\ controller' = Controller /\ linked' = TRUE
      /\ Pump(NoWrite, <<ready>>)
      /\ DOMAIN receipts' = Known \ Discarded(Controller)
      /\ \A id \in DOMAIN receipts' : receipts'[id].print = receipts[id].print
                                      /\ receipts'[id].terminal = receipts[id].terminal
  <2>1. ReceiptsOK BY <1>1 DEF TypeOK
  <2>2. /\ receipts' = [id \in Known \ Discarded(Controller) |->
              [receipts[id] EXCEPT !.sent = MaxSafe,
                 !.abandoned = @ \/ (Replaced(Controller) /\ ~receipts[id].retained)]]
        BY <1>2 DEF Connect
  <2>3. \A id \in Known \ Discarded(Controller) :
           receipts'[id].print = receipts[id].print /\ receipts'[id].terminal = receipts[id].terminal
        BY <2>1, <2>2 DEF ReceiptsOK, IsReceipt
  <2> QED BY <1>2, <2>2, <2>3 DEF Connect
<1>6. /\ UNCHANGED <<row, query, pending, recovering, cursor, released, acks, results, settling, alive, faults>>
      /\ peer' = "open" /\ toOwner' = <<>> /\ alive
      BY DEF Establish, durable, proxy
<1>7. \A id \in Ids : ~Asks(id)' BY <1>6 DEF Asks, Has
<1>8. \A id \in Ids : /\ Started(id)' = Started(id) /\ Done(id)' = Done(id)
                      /\ Waits(id)' = Waits(id) /\ Settled(id)' = Settled(id)
      BY <1>6 DEF Started, Done, Relevant, Waits, Settled, RowOf, Has
<1>9. Keeps BY <1>5, <1>7, <1>8 DEF Keeps
<1>10. \A id \in Ids : Gone(id) => Gone(id)' BY <1>9, GoneStays
<1>11. (released = <<>> /\ acks = <<>>) \/ KeepsConcluded
  <2>1. CASE Replaced(Controller) BY <1>1, <2>1 DEF PeersOK, Replaced
  <2>2. CASE ~Replaced(Controller)
    <3>1. DOMAIN receipts' = Known BY <1>5, <2>2 DEF Discarded
    <3>2. \A id \in Known : Terminal(id) => id \in DOMAIN receipts' /\ Terminal(id)' BY <1>5, <3>1 DEF Terminal
    <3> QED BY <1>9, <3>2, ConcludedStays
  <2> QED BY <2>1, <2>2
<1>12. MessagesOK'
  <2>1. ready \in WireMessages /\ MessageOK(ready)' /\ ready.kind = "ready"
        BY JournalAssumption DEF Message, WireMessages, MessageOK, Numbers
  <2> HIDE DEF ready
  <2>2. <<ready>> \in Seq(WireMessages) /\ \A m : Has(<<ready>>, m) => m = ready BY <2>1 DEF Has
  <2>3. ASSUME NEW m \in WireMessages, Has(aux, m) PROVE MessageOK(m)'
    <3>1. MessageOK(m) BY <1>1, <2>3 DEF MessagesOK
    <3>2. m.kind # "response"
      <4>1. PICK i \in DOMAIN aux : aux[i] = m BY <2>3 DEF Has
      <4>2. aux \in Seq(AuxMessages) BY <1>1 DEF TypeOK, ControlOK
      <4>3. m \in AuxMessages BY <4>1, <4>2
      <4> QED BY <4>3 DEF AuxMessages, AuxKinds
    <3> QED BY <1>9, <3>1, <3>2, MessageStays
  <2>4. ReceiptsOK' /\ OrderOK' /\ ControlOK' BY <1>4 DEF TypeOK
  <2>5. \A m \in WireMessages : Has(<<ready>>, m) \/ Has(aux', m) => MessageOK(m)' BY <1>5, <2>1, <2>2, <2>3
  <2>6. Pump(NoWrite, <<ready>>) BY <1>5 DEF ready
  <2> QED BY <2>2, <2>4, <2>5, <2>6, PumpMessages
<1>13. EntriesOK'
  <2>1. \A id \in DOMAIN receipts' : id \in Ids BY <1>4 DEF TypeOK, ReceiptsOK, Known
  <2>2. \A id \in DOMAIN receipts' : receipts'[id].print = Fingerprint /\ Started(id)'
        BY <1>1, <1>5, <1>8, <2>1 DEF EntriesOK
  <2>3. \A id \in Ids : Tombstoned(id)' => Gone(id)' /\ (id \in Jobs => Settled(id)')
        BY <1>1, <1>5, <1>8, <1>10 DEF EntriesOK, Tombstoned
  <2> QED BY <2>2, <2>3 DEF EntriesOK, Known
<1>14. CommandsOK' BY <1>6, NothingHas DEF CommandsOK, AcksLast, Has
<1>15. PendingOK'
  <2>1. \A j \in recovering : Started(j)' /\ ~Asks(j)' BY <1>1, <1>7, <1>8, IdKinds DEF PendingOK
  <2> QED BY <1>1, <1>6, <2>1 DEF PendingOK, Distinct, Has, Settling
<1>16. RepliesOK'
  <2>1. \A id \in Ids : Has(released, id) \/ Has(acks, id) => Acknowledgeable(id)'
        BY <1>1, <1>9, <1>11, NothingHas, AcknowledgeableStays DEF RepliesOK
  <2> QED BY <1>1, <1>6, <2>1 DEF RepliesOK, Distinct, Has
<1>17. RowsOK' BY <1>1, <1>6, <1>10, IdKinds DEF RowsOK
<1>18. PeersOK' BY <1>1, <1>5, <1>6 DEF PeersOK, Controller
<1> QED BY <1>9, <1>4, <1>12, <1>13, <1>14, <1>15, <1>16, <1>17, <1>18 DEF HandoffInv

\* With the owner goes everything it knew.
LEMMA OwnerExitsOK ==
    ASSUME HandoffInv, OwnerExits
    PROVE  HandoffInv' /\ Keeps
<1>1. PendingOK /\ RepliesOK /\ RowsOK /\ PeersOK BY DEF HandoffInv
<1>2. TypeOK'
  <2>1. JournalInit' BY DEF OwnerExits, JournalInit
  <2>2. (JournalInit => TypeOK)' BY TypeInit, PTL
  <2> QED BY <2>1, <2>2
<1>3. /\ receipts' = Empty /\ acked' = <<>> /\ aux' = <<>> /\ wire' = <<>> /\ toOwner' = <<>>
      /\ peer' = "down" /\ alive' = FALSE /\ controller' = None /\ linked' = FALSE
      /\ UNCHANGED <<row, query, pending, recovering, cursor, released, acks, results, settling>>
      /\ faults' = [faults EXCEPT !.exits = faults.exits + 1]
      BY DEF OwnerExits, durable, proxy
<1>4. DOMAIN receipts' = {} BY <1>3 DEF Empty
<1>5. \A id \in Ids : ~Asks(id)' /\ ~Tombstoned(id)' BY <1>3 DEF Asks, Has, Tombstoned
<1>6. \A id \in Ids : /\ Started(id)' = Started(id) /\ Done(id)' = Done(id)
                      /\ Waits(id)' = Waits(id) /\ Settled(id)' = Settled(id)
      BY <1>3 DEF Started, Done, Relevant, Waits, Settled, RowOf, Has
<1>7. \A id \in Ids : Done(id) => Gone(id)' /\ Concluded(id)'
      BY <1>4, <1>5, <1>6 DEF Gone, Closed, Concluded, Known
<1>17. Keeps BY <1>4, <1>5, <1>6 DEF Keeps
<1>8. \A id \in Ids : Acknowledgeable(id) => Acknowledgeable(id)'
      BY <1>6, <1>7 DEF Acknowledgeable
<1>9. \A id \in Ids : Gone(id) => Gone(id)' BY <1>7 DEF Gone, Closed
<1>10. MessagesOK' BY <1>3, NothingHas DEF MessagesOK, Has
<1>11. EntriesOK' BY <1>4, <1>5 DEF EntriesOK, Known
<1>12. CommandsOK' BY <1>3, NothingHas DEF CommandsOK, AcksLast, Has
<1>13. PendingOK'
  <2>1. \A j \in recovering : Started(j)' /\ ~Asks(j)' BY <1>1, <1>5, <1>6, IdKinds DEF PendingOK
  <2> QED BY <1>1, <1>3, <2>1 DEF PendingOK, Distinct, Has, Settling
<1>14. RepliesOK' BY <1>1, <1>3, <1>8 DEF RepliesOK, Distinct, Has
<1>15. RowsOK' BY <1>1, <1>3, <1>9, IdKinds DEF RowsOK
<1>16. PeersOK'
  <2>1. faults'.crashes = faults.crashes
        /\ faults' = [drops |-> faults'.drops, crashes |-> faults'.crashes, exits |-> faults'.exits]
        BY <1>1, <1>3 DEF PeersOK
  <2> QED BY <1>1, <1>3, <1>4, <2>1 DEF PeersOK, Known
<1> QED BY <1>2, <1>17, <1>10, <1>11, <1>12, <1>13, <1>14, <1>15, <1>16 DEF HandoffInv

-----------------------------------------------------------------------------
(* The theorems *)

LEMMA HandoffInitOK == HandoffInit => HandoffInv
<1> SUFFICES ASSUME HandoffInit PROVE HandoffInv OBVIOUS
<1>1. TypeOK BY TypeInit DEF HandoffInit
<1>2. Known = {} /\ acked = <<>> /\ aux = <<>> /\ wire = <<>> /\ controller = None
      BY DEF HandoffInit, JournalInit, Known, Empty
<1>3. MessagesOK BY <1>2, NothingHas DEF MessagesOK
<1>4. CommandsOK BY NothingHas DEF CommandsOK, HandoffInit
<1>5. EntriesOK BY <1>2 DEF EntriesOK, Tombstoned
<1>6. PendingOK BY NothingHas DEF PendingOK, HandoffInit
<1>7. RepliesOK BY NothingHas DEF RepliesOK, HandoffInit
<1>8. RowsOK
  <2>1. \A j \in Jobs : row[j] = "absent" BY DEF HandoffInit
  <2>2. \A r \in Queries : query[r] = "new" BY DEF HandoffInit
  <2>3. DOMAIN settling = {} BY DEF HandoffInit
  <2> QED BY <2>1, <2>2, <2>3 DEF RowsOK, HandoffInit
<1>9. PeersOK
  <2>1. 0 \in Numbers /\ 0 \in 0 .. MaxCrashes BY JournalAssumption, HandoffAssumption DEF Numbers
  <2> QED BY <1>2, <2>1 DEF PeersOK, HandoffInit
<1> QED BY <1>1, <1>3, <1>4, <1>5, <1>6, <1>7, <1>8, <1>9 DEF HandoffInv

LEMMA HandoffStep == HandoffInv /\ [HandoffNext]_handoffVars => HandoffInv' /\ Keeps
<1> SUFFICES ASSUME HandoffInv, [HandoffNext]_handoffVars PROVE HandoffInv' /\ Keeps OBVIOUS
<1>1. ASSUME NEW j \in Jobs, StartJob(j) \/ Commit(j) \/ Assign(j) PROVE HandoffInv' /\ Keeps
      BY <1>1, StartJobOK, CommitOK, AssignOK
<1>2. ASSUME NEW r \in Queries, StartQuery(r) PROVE HandoffInv' /\ Keeps BY <1>2, StartQueryOK
<1>3. ASSUME NEW id \in Ids, NEW o \in Outcomes, Finish(id, o) PROVE HandoffInv' /\ Keeps BY <1>3, FinishOK
<1>4. CASE RetryAcks BY <1>4, RetryAcksOK
<1>5. CASE ControllerGets
      BY <1>5, GetReadyOK, GetAcknowledgedOK, GetQuietlyOK, GetResponseOK DEF ControllerGets
<1>6. CASE ReplayNext BY <1>6, ReplayNextOK
<1>7. CASE OwnerHandles BY <1>7, OwnerAdmitsOK, OwnerRecoversOK, OwnerAcknowledgesOK DEF OwnerHandles
<1>8. CASE OwnerWrites BY <1>8, OwnerWritesOK
<1>9. CASE Establish BY <1>9, EstablishOK
<1>10. CASE LinkDrops \/ AssignmentRefused BY <1>10, LinkDropsOK
<1>11. CASE OwnerNotices BY <1>11, OwnerNoticesOK
<1>12. CASE ControllerRestarts BY <1>12, ControllerRestartsOK
<1>13. CASE OwnerExits BY <1>13, OwnerExitsOK
<1>14. CASE SeeExit BY <1>14, SeeExitOK
<1>15. CASE UNCHANGED handoffVars BY <1>15, StutterOK
<1> QED BY <1>1, <1>2, <1>3, <1>4, <1>5, <1>6, <1>7, <1>8, <1>9, <1>10, <1>11, <1>12, <1>13, <1>14, <1>15
        DEF HandoffNext

LEMMA HandoffInvariant == HandoffSpec => []HandoffInv
BY HandoffInitOK, HandoffStep, PTL DEF HandoffSpec

\* A tombstone names a Job whose row is terminal (acknowledge() runs after the
\* commit, and no retried acknowledgement outruns one).
THEOREM OutcomeIsForgottenLast == HandoffSpec => []AcknowledgedIsCommitted
<1>1. HandoffInv => AcknowledgedIsCommitted
      BY IdKinds DEF HandoffInv, EntriesOK, AcknowledgedIsCommitted
<1> QED BY <1>1, HandoffInvariant, PTL

\* "worker-lost" in a row is the truth, now and later: the owner has no receipt
\* of that Job and no copy of its request is on the way (recover()).
THEOREM LossIsFinal == HandoffSpec => []LostIsLost
<1>1. HandoffInv => LostIsLost
      BY IdKinds DEF HandoffInv, RowsOK, LostIsLost, Gone
<1> QED BY <1>1, HandoffInvariant, PTL

\* A query whose caller has its answer holds no receipt, whatever copies of its
\* request and acknowledgement the replays have written.
THEOREM AnswerFreesTheSlot == HandoffSpec => []AnsweredIsReleased
<1>1. HandoffInv => AnsweredIsReleased
      BY IdKinds DEF HandoffInv, RowsOK, AnsweredIsReleased, Gone
<1> QED BY <1>1, HandoffInvariant, PTL

-----------------------------------------------------------------------------
(* TurnAuthority.                                                           *)
(*                                                                          *)
(* HandoffInv says when nothing more can happen to a Job.  What its turn is *)
(* by then, the invariant below says: a turn that runs has a receipt, an    *)
(* outcome stays in the receipt or in the proxy until the row has it, and   *)
(* while a copy of the request may still be admitted, there was no turn.    *)

\* No Job is being refused for capacity: the one way in which an execution may
\* begin for a Job that is on record as failed (NoTurnAfterFailure).
NoRefusal ==
    \A n \in DOMAIN aux : aux[n].kind = "error" /\ aux[n].id \in Jobs => aux[n].outcome # "capacity"

TurnStates == {"none", "running", "lost"} \cup Outcomes

TurnOK(j) ==
    /\ turn[j] = "running" => j \in Known
    /\ turn[j] \in Outcomes /\ row[j] = "running" => j \in Known \/ Settling(j)
    /\ row[j] = "absent" => turn[j] = "none"
    /\ Asks(j) /\ j \notin Known => turn[j] = "none" /\ row[j] = "running"
    /\ alive /\ ~Done(j) /\ j \notin Known => turn[j] = "none"
    /\ Settling(j) => \/ settling[j] \in Outcomes /\ turn[j] = settling[j]
                      \/ settling[j] \in {"unavailable", "worker-lost"} /\ turn[j] \in {"none", "lost"}

\* The receipt r of a Job with the turn t and the row w.
ReceiptTurn(r, t, w) ==
    /\ ~r.failed /\ ~r.abandoned /\ ~r.acknowledged /\ DOMAIN r.events \subseteq {"assignment"}
    /\ r.terminal # None => r.terminal = t /\ t \in Outcomes
    /\ r.terminal = None => t = "running" /\ w = "running"

JobOK(j) == TurnOK(j) /\ (j \in Known => ReceiptTurn(receipts[j], turn[j], row[j]))

\* A response on the wire is of a turn that nobody takes for lost.
Fixed(j) == j \in Known \/ row[j] # "running"
MessageTurn(m) ==
    m.id \in Jobs =>
        /\ m.kind = "response" => m.outcome \in Outcomes /\ m.outcome = turn[m.id] /\ Fixed(m.id)
        /\ m.kind = "error" => m.outcome # "capacity"
TurnMessages == \A m \in WireMessages : Has(wire, m) => MessageTurn(m)

TurnsInv == turn \in [Jobs -> TurnStates] /\ (\A j \in Jobs : JobOK(j)) /\ TurnMessages

AuthorityStep == [Turns!TurnNext]_<<row, turn>>

LEMMA OutcomesAreFinal ==
    /\ Outcomes \cap ({"absent", "running", "none", "lost", "unavailable", "capacity", "worker-lost"}) = {}
    /\ None \notin Outcomes /\ "unavailable" \notin TerminalValues
BY HandoffAssumption, JournalAssumption DEF Refusals, TerminalValues

\* What a step leaves of the receipt of a Job, and of the Job.
SameCore(r, q) ==
    /\ (q.failed <=> r.failed) /\ (q.abandoned <=> r.abandoned) /\ (q.acknowledged <=> r.acknowledged)
    /\ q.terminal = r.terminal /\ DOMAIN q.events \subseteq DOMAIN r.events \cup {"assignment"}
SameReceipt(j) ==
    /\ j \in DOMAIN receipts' <=> j \in Known
    /\ j \in Known => SameCore(receipts[j], receipts'[j])
SameJob(j) ==
    /\ row'[j] = row[j] /\ turn'[j] = turn[j] /\ SameReceipt(j)
    /\ Settling(j)' => Settling(j) /\ settling'[j] = settling[j]
    /\ Settling(j) => Settling(j)' \/ j \in Known \/ turn[j] \notin Outcomes

LEMMA SameJobOK ==
    ASSUME HandoffInv, HandoffInv', Keeps, NEW j \in Jobs, JobOK(j), SameJob(j), alive' => alive
    PROVE  JobOK(j)'
<1>1. CommandsOK' /\ PeersOK' /\ PendingOK BY DEF HandoffInv
<1>2. j \in Ids /\ TurnOK(j) BY IdKinds DEF JobOK
<1>3. row'[j] = row[j] /\ turn'[j] = turn[j] /\ (j \in Known' <=> j \in Known) BY DEF SameJob, SameReceipt, Known
<1>4. Asks(j)' => alive' /\ Started(j)'
  <2> SUFFICES ASSUME Asks(j)' PROVE alive' /\ Started(j)' OBVIOUS
  <2>1. PICK c \in Commands : Has(toOwner', c) /\ c.kind = "request" /\ c.id = j BY DEF Asks, Has
  <2>2. Started(j)' BY <1>1, <2>1 DEF CommandsOK, CommandOK, Has
  <2>3. toOwner' # <<>> BY <2>1, NothingHas
  <2> QED BY <1>1, <2>2, <2>3 DEF PeersOK
<1>5. (Started(j) <=> row[j] # "absent") /\ (Started(j)' <=> row[j] # "absent") BY <1>3 DEF Started
<1>6. (~Done(j)' => ~Done(j)) /\ (Asks(j)' => Asks(j) \/ ~Done(j)) BY <1>2 DEF Keeps
<1>7. ~Done(j) /\ Started(j) => row[j] = "running" BY <1>1, <1>2 DEF Done, Relevant, PendingOK
<1>8. Asks(j)' /\ j \notin Known' => turn'[j] = "none" /\ row'[j] = "running"
      BY <1>2, <1>3, <1>4, <1>5, <1>6, <1>7 DEF TurnOK
<1>9. alive' /\ ~Done(j)' /\ j \notin Known' => turn'[j] = "none" BY <1>2, <1>3, <1>6 DEF TurnOK
<1>10. turn'[j] \in Outcomes /\ row'[j] = "running" => j \in Known' \/ Settling(j)'
       BY <1>2, <1>3 DEF TurnOK, SameJob
<1>11. Settling(j)' => \/ settling'[j] \in Outcomes /\ turn'[j] = settling'[j]
                       \/ settling'[j] \in {"unavailable", "worker-lost"} /\ turn'[j] \in {"none", "lost"}
       BY <1>2, <1>3 DEF TurnOK, SameJob
<1>12. TurnOK(j)' BY <1>2, <1>3, <1>8, <1>9, <1>10, <1>11 DEF TurnOK
<1>13. j \in Known' => ReceiptTurn(receipts'[j], turn'[j], row'[j])
       BY <1>3 DEF JobOK, SameJob, SameReceipt, SameCore, ReceiptTurn
<1> QED BY <1>12, <1>13 DEF JobOK

-----------------------------------------------------------------------------
(* What a step does to the outcomes on the wire *)

Stands(j) == turn[j] \in Outcomes /\ Fixed(j) => turn'[j] = turn[j] /\ Fixed(j)'

\* pump() writes the outcome of the turn.
LEMMA NextTurn ==
    ReceiptsOK /\ OrderOK /\ ControlOK /\ HasNext /\ NoRefusal
      /\ (\A j \in Jobs : j \in Known => ReceiptTurn(receipts[j], turn[j], row[j]))
    => \A m : m = NextMessage => MessageTurn(m)
<1> SUFFICES ASSUME ReceiptsOK, OrderOK, ControlOK, HasNext, NoRefusal,
                    \A j \in Jobs : j \in Known => ReceiptTurn(receipts[j], turn[j], row[j]),
                    NEW m, m = NextMessage
             PROVE  MessageTurn(m)
    OBVIOUS
<1>1. CASE AuxTurn
  <2>1. aux # <<>> /\ m = Head(aux) BY <1>1 DEF HasNext, AuxTurn, NextMessage
  <2>2. m \in AuxMessages /\ Has(aux, m) BY <2>1, TailHas DEF ControlOK
  <2>3. m.kind # "response" BY <2>2 DEF AuxMessages, AuxKinds
  <2> QED BY <2>2, <2>3 DEF NoRefusal, MessageTurn, Has
<1>2. CASE ~AuxTurn
  <2>1. Ready # {} /\ m = NextReceipt BY <1>2 DEF AuxTurn, NextMessage
  <2> DEFINE id == FirstReady
  <2>2. id \in Known /\ m \in Unsent(id) BY <2>1, NextReceiptOK
  <2> HIDE DEF id
  <2>3. CASE m.kind = "event" BY <2>3 DEF MessageTurn
  <2>4. CASE Terminal(id) /\ m = Message("response", id, None, receipts[id].terminalSeq, {}, receipts[id].terminal)
    <3>1. m.kind = "response" /\ m.id = id /\ m.outcome = receipts[id].terminal BY <2>4 DEF Message
    <3>2. id \in Jobs => m.outcome \in Outcomes /\ m.outcome = turn[id]
          BY <2>2, <2>4, <3>1 DEF ReceiptTurn, Terminal
    <3> QED BY <2>2, <3>1, <3>2 DEF MessageTurn, Fixed
  <2> QED BY <2>2, <2>3, <2>4 DEF Unsent, Message
<1> QED BY <1>1, <1>2

LEMMA TurnStep ==
    ASSUME HandoffInv, TurnsInv, HandoffInv', Keeps, NoRefusal', turn' \in [Jobs -> TurnStates],
           NEW flight, NEW w \in Seq(WireMessages), Pump(flight, w) \/ wire' = w,
           \A m \in WireMessages : Has(w, m) => Has(wire, m) \/ m.kind = "ready",
           \A j \in Jobs : (SameJob(j) /\ (alive' => alive)) \/ (JobOK(j)' /\ Stands(j))
    PROVE  TurnsInv'
<1>1. \A j \in Jobs : JobOK(j)' BY SameJobOK DEF TurnsInv
<1>2. \A j \in Jobs : Stands(j)
  <2>1. \A j \in Jobs : SameJob(j) => Stands(j) BY DEF SameJob, SameReceipt, Stands, Fixed, Known
  <2> QED BY <2>1
<1>3. ASSUME NEW m \in WireMessages, Has(w, m) PROVE MessageTurn(m)'
  <2>1. CASE m.kind = "ready" BY <2>1 DEF MessageTurn
  <2>2. CASE Has(wire, m)
    <3>1. MessageTurn(m) BY <2>2 DEF TurnsInv, TurnMessages
    <3> QED BY <1>2, <3>1 DEF MessageTurn, Stands
  <2> QED BY <1>3, <2>1, <2>2
<1>4. TurnMessages'
  <2>1. CASE wire' = w BY <1>3, <2>1 DEF TurnMessages, Has
  <2>2. CASE HasNext' /\ wire' = Append(w, NextMessage')
    <3>1. ReceiptsOK' /\ OrderOK' /\ ControlOK' BY DEF HandoffInv, TypeOK
    <3>2. (ReceiptsOK /\ OrderOK /\ ControlOK /\ HasNext /\ NoRefusal
             /\ (\A j \in Jobs : j \in Known => ReceiptTurn(receipts[j], turn[j], row[j]))
           => \A m : m = NextMessage => MessageTurn(m))'
          BY NextTurn, PTL
    <3>3. (\A j \in Jobs : j \in Known => ReceiptTurn(receipts[j], turn[j], row[j]))' BY <1>1 DEF JobOK
    <3>4. \A m : m = NextMessage' => MessageTurn(m)' BY <2>2, <3>1, <3>2, <3>3
    <3>5. \A m \in WireMessages : Has(wire', m) => Has(w, m) \/ m = NextMessage'
      <4>1. \A i \in DOMAIN wire' : (i \in DOMAIN w /\ wire'[i] = w[i]) \/ wire'[i] = NextMessage' BY <2>2
      <4> QED BY <4>1 DEF Has
    <3> QED BY <1>3, <3>4, <3>5 DEF TurnMessages, Has
  <2> QED BY <2>1, <2>2 DEF Pump
<1> QED BY <1>1, <1>4 DEF TurnsInv

-----------------------------------------------------------------------------
(* The steps that leave row, turn and receipts alone *)

LEMMA QuietTurn ==
    ASSUME HandoffInv, TurnsInv, HandoffInv', Keeps, NoRefusal', ControllerFrame,
           UNCHANGED <<row, turn, settling, alive>>
    PROVE  TurnsInv' /\ AuthorityStep
<1>1. \A j \in Jobs : SameJob(j)
      BY DEF SameJob, SameReceipt, SameCore, Settling, Known, ControllerFrame
<1>2. wire \in Seq(WireMessages) BY DEF HandoffInv, MessagesOK
<1>3. wire' \in Seq(WireMessages) /\ \A m : Has(wire', m) => Has(wire, m)
      BY <1>2, TailHas, NothingHas DEF ControllerFrame
<1>4. turn' \in [Jobs -> TurnStates] BY DEF TurnsInv
<1>5. TurnsInv'
  <2> DEFINE w == wire'
  <2>1. w \in Seq(WireMessages) /\ wire' = w /\ \A m \in WireMessages : Has(w, m) => Has(wire, m) BY <1>3
  <2> HIDE DEF w
  <2> QED BY <1>1, <1>4, <2>1, TurnStep
<1> QED BY <1>5 DEF AuthorityStep

LEMMA ReadsQuietly ==
    ASSUME GetReady \/ GetAcknowledged \/ GetAssignment \/ IgnoreMessage \/ (GetResponse /\ Msg.id \notin Jobs)
    PROVE  ControllerFrame /\ UNCHANGED <<row, turn, settling, alive>>
<1>1. ASSUME Read, wire # <<>> PROVE ControllerFrame BY <1>1 DEF Read, ControllerFrame
<1>2. CASE GetReady BY <1>1, <1>2 DEF GetReady, Incoming, durable
<1>3. CASE GetAcknowledged BY <1>1, <1>3 DEF GetAcknowledged, Incoming, durable
<1>4. CASE GetAssignment BY <1>1, <1>4 DEF GetAssignment, Incoming
<1>5. CASE IgnoreMessage BY <1>1, <1>5 DEF IgnoreMessage, Incoming, durable, proxy
<1>6. CASE GetResponse /\ Msg.id \notin Jobs
      BY <1>1, <1>6 DEF GetResponse, Incoming, durable, AcknowledgedLater
<1> QED BY <1>2, <1>3, <1>4, <1>5, <1>6

LEMMA WritesQuietly ==
    ASSUME \/ \E r \in Queries : StartQuery(r)
           \/ RetryAcks \/ ReplayNext \/ LinkDrops \/ AssignmentRefused \/ OwnerNotices \/ UNCHANGED handoffVars
    PROVE  ControllerFrame /\ UNCHANGED <<row, turn, settling, alive>>
<1>1. CASE \E r \in Queries : StartQuery(r)
      BY <1>1 DEF StartQuery, Dispatch, ControllerFrame, journalVars, durable
<1>2. CASE RetryAcks BY <1>2 DEF RetryAcks, ControllerFrame, journalVars, durable
<1>3. CASE ReplayNext BY <1>3 DEF ReplayNext, ControllerFrame, journalVars, durable, proxy
<1>4. CASE LinkDrops BY <1>4 DEF LinkDrops, Lost, ControllerFrame, durable, proxy
<1>5. CASE AssignmentRefused BY <1>5 DEF AssignmentRefused, Lost, ControllerFrame, durable
<1>6. CASE OwnerNotices BY <1>6 DEF OwnerNotices, Disconnect, ControllerFrame, durable, proxy
<1>7. CASE UNCHANGED handoffVars
      BY <1>7 DEF handoffVars, journalVars, durable, proxy, ControllerFrame
<1> QED BY <1>1, <1>2, <1>3, <1>4, <1>5, <1>6, <1>7

-----------------------------------------------------------------------------
(* The owner: a turn begins, ends, and its receipt is forgotten *)

LEMMA OwnerTurn ==
    ASSUME HandoffInv, TurnsInv, HandoffInv', Keeps, NoRefusal', OwnerFrame, turn' \in [Jobs -> TurnStates],
           NEW flight, Pump(flight, wire) \/ wire' = wire,
           \A j \in Jobs : (SameReceipt(j) /\ turn'[j] = turn[j]) \/ (JobOK(j)' /\ Stands(j))
    PROVE  TurnsInv'
<1>1. UNCHANGED <<row, settling, alive>> BY DEF OwnerFrame, durable, proxy
<1>2. \A j \in Jobs : SameReceipt(j) /\ turn'[j] = turn[j] => SameJob(j)
      BY <1>1 DEF SameJob, Settling
<1>3. wire \in Seq(WireMessages) BY DEF HandoffInv, MessagesOK
<1> QED BY <1>1, <1>2, <1>3, TurnStep

\* Of a receipt only the place it was read to.
LEMMA SentCore ==
    ASSUME ReceiptsOK, NEW id, NEW n, receipts' = [receipts EXCEPT ![id].sent = n]
    PROVE  \A j \in Jobs : SameReceipt(j)
<1> SUFFICES ASSUME NEW j \in Jobs, j \in Known PROVE SameCore(receipts[j], receipts'[j])
    BY DEF SameReceipt, Known
<1> DEFINE r == receipts[j]
<1>1. IsReceipt(r) BY DEF ReceiptsOK
<1>2. receipts'[j] = r \/ receipts'[j] = [r EXCEPT !.sent = n] BY DEF Known
<1> HIDE DEF r
<1>3. SameCore(r, [r EXCEPT !.sent = n]) BY <1>1 DEF SameCore, IsReceipt
<1>4. SameCore(r, r) BY DEF SameCore
<1> QED BY <1>2, <1>3, <1>4 DEF r

LEMMA SameReceiptsCore ==
    ASSUME UNCHANGED receipts
    PROVE  \A j \in Jobs : SameReceipt(j)
BY DEF SameReceipt, SameCore, Known

LEMMA OwnerWritesTurn ==
    ASSUME HandoffInv, TurnsInv, HandoffInv', Keeps, NoRefusal', OwnerWrites
    PROVE  TurnsInv' /\ AuthorityStep
<1>1. ReceiptsOK BY DEF HandoffInv, TypeOK
<1>2. /\ Pump(NoWrite, wire) \/ wire' = wire
      /\ UNCHANGED receipts \/ \E id, n : receipts' = [receipts EXCEPT ![id].sent = n]
      /\ UNCHANGED <<controller, linked>>
      BY DEF OwnerWrites, ReceiptWritten, AuxWritten, PumpLater
<1>3. OwnerFrame /\ UNCHANGED <<row, turn>> BY <1>2 DEF OwnerWrites, OwnerFrame, link, durable
<1>4. \A j \in Jobs : SameReceipt(j) BY <1>1, <1>2, SentCore, SameReceiptsCore
<1>5. TurnsInv' BY <1>2, <1>3, <1>4, OwnerTurn DEF TurnsInv
<1> QED BY <1>3, <1>5 DEF AuthorityStep

LEMMA OwnerRecoversTurn ==
    ASSUME HandoffInv, TurnsInv, HandoffInv', Keeps, NoRefusal', OwnerRecovers
    PROVE  TurnsInv' /\ AuthorityStep
<1>1. ReceiptsOK BY DEF HandoffInv, TypeOK
<1>2. PICK id, after : Recover(id, after) BY DEF OwnerRecovers
<1>3. /\ \E flight : Pump(flight, wire)
      /\ UNCHANGED receipts \/ \E n : receipts' = [receipts EXCEPT ![id].sent = n]
      /\ UNCHANGED <<controller, linked>>
      BY <1>2 DEF Recover, RecoverKnown, RecoverMissing, ReplyError
<1>4. OwnerFrame /\ UNCHANGED <<row, turn>>
      BY <1>3 DEF OwnerRecovers, OwnerReads, OwnerRead, OwnerFrame, durable
<1>5. \A j \in Jobs : SameReceipt(j) BY <1>1, <1>3, SentCore, SameReceiptsCore
<1>6. PICK flight : Pump(flight, wire) BY <1>3
<1>7. TurnsInv' BY <1>4, <1>5, <1>6, OwnerTurn DEF TurnsInv
<1> QED BY <1>4, <1>7 DEF AuthorityStep

\* A request is admitted once: while it may be, its Job had no turn.
LEMMA OwnerAdmitsTurn ==
    ASSUME HandoffInv, TurnsInv, HandoffInv', Keeps, NoRefusal', OwnerAdmits
    PROVE  TurnsInv' /\ AuthorityStep
<1>1. ReceiptsOK /\ CommandsOK /\ RowsOK /\ toOwner # <<>> /\ Head(toOwner).kind = "request"
      BY DEF HandoffInv, TypeOK, OwnerAdmits, OwnerReads
<1> PICK c \in Commands : c = Head(toOwner) BY <1>1, HeadCommand
<1> DEFINE id == c.id
           after == c.after
<1>2. id \in Ids /\ Asks(id) BY <1>1, HeadCommand DEF Asks
<1>3. /\ Admit(id, after, Fingerprint)
      /\ turn' = IF AdmitsNew(id) /\ id \in Jobs THEN [turn EXCEPT ![id] = "running"] ELSE turn
      BY DEF OwnerAdmits
<1> HIDE DEF id, after
<1>4. UNCHANGED <<controller, linked>>
      BY <1>3 DEF Admit, AdmitNew, AdmitExisting, AdmitConflict, AdmitTombstoned, AdmitOverCapacity, ReplyError
<1>5. OwnerFrame /\ UNCHANGED <<row, settling>>
      BY <1>1, <1>4 DEF OwnerAdmits, OwnerRead, OwnerFrame, durable, proxy
<1>6. CASE AdmitNew(id, Fingerprint)
  <2>1. /\ DOMAIN receipts' = Known \cup {id} /\ id \notin Known /\ AdmitsNew(id)
        /\ receipts'[id] = NewReceipt(id, Fingerprint)
        /\ \A i \in Known : receipts'[i] = receipts[i]
        /\ wire' = wire
        BY <1>6 DEF AdmitNew, AdmitsNew
  <2>2. \A j \in Jobs : j # id => SameReceipt(j) BY <2>1 DEF SameReceipt, SameCore
  <2>3. CASE id \notin Jobs
    <3>1. turn' = turn BY <1>3, <2>3
    <3>2. \A j \in Jobs : SameReceipt(j) BY <2>2, <2>3
    <3>3. TurnsInv' BY <1>5, <2>1, <3>1, <3>2, OwnerTurn DEF TurnsInv
    <3> QED BY <1>5, <3>1, <3>3 DEF AuthorityStep
  <2>4. CASE id \in Jobs
    <3>1. turn' = [turn EXCEPT ![id] = "running"] /\ turn \in [Jobs -> TurnStates] /\ TurnOK(id)
          BY <1>3, <2>1, <2>4 DEF TurnsInv, JobOK
    <3>2. turn[id] = "none" /\ row[id] = "running" BY <1>2, <2>1, <3>1 DEF TurnOK
    <3>3. ~Settling(id)
      <4> SUFFICES ASSUME Settling(id) PROVE FALSE OBVIOUS
      <4>1. settling[id] \in {"unavailable", "worker-lost"} BY <3>1, <3>2, OutcomesAreFinal DEF TurnOK
      <4>2. Gone(id) BY <1>1, <4>1 DEF RowsOK, Settling
      <4> QED BY <1>2, <4>2 DEF Gone, Closed
    <3>4. turn' \in [Jobs -> TurnStates] /\ turn'[id] = "running" /\ \A j \in Jobs : j # id => turn'[j] = turn[j]
          BY <2>4, <3>1 DEF TurnStates
    <3>5. TurnOK(id)' BY <1>5, <2>1, <3>2, <3>3, <3>4, OutcomesAreFinal DEF TurnOK, Known, Settling
    <3>6. ReceiptTurn(receipts'[id], turn'[id], row'[id])
          BY <1>5, <2>1, <3>2, <3>4 DEF ReceiptTurn, NewReceipt, Empty
    <3>7. Stands(id) BY <3>2, OutcomesAreFinal DEF Stands
    <3>8. JobOK(id)' BY <3>5, <3>6 DEF JobOK
    <3>9. TurnsInv' BY <1>5, <2>1, <2>2, <3>4, <3>7, <3>8, OwnerTurn
    <3>10. Turns!Begin(id) BY <1>5, <3>1, <3>2 DEF Turns!Begin
    <3> QED BY <2>4, <3>9, <3>10 DEF AuthorityStep, Turns!TurnNext
  <2> QED BY <2>3, <2>4
<1>7. CASE ~AdmitNew(id, Fingerprint)
  <2>1. ~AdmitsNew(id) /\ turn' = turn
    <3>1. ~AdmitsNew(id)
          BY <1>3, <1>7 DEF Admit, AdmitsNew, AdmitExisting, AdmitConflict, AdmitTombstoned, AdmitOverCapacity
    <3> QED BY <1>3, <3>1
  <2>2. /\ \E flight : Pump(flight, wire)
        /\ UNCHANGED receipts \/ \E n : receipts' = [receipts EXCEPT ![id].sent = n]
    <3>1. CASE AdmitExisting(id, after, Fingerprint) BY <3>1 DEF AdmitExisting
    <3>2. CASE \E code : ReplyError(id, code) BY <3>2 DEF ReplyError
    <3> QED BY <1>3, <1>7, <3>1, <3>2 DEF Admit, AdmitConflict, AdmitTombstoned, AdmitOverCapacity
  <2>3. \A j \in Jobs : SameReceipt(j) BY <1>1, <2>2, SentCore, SameReceiptsCore
  <2>4. PICK flight : Pump(flight, wire) BY <2>2
  <2>5. TurnsInv' BY <1>5, <2>1, <2>3, <2>4, OwnerTurn DEF TurnsInv
  <2> QED BY <1>5, <2>1, <2>5 DEF AuthorityStep
<1> QED BY <1>6, <1>7

LEMMA AssignTurn ==
    ASSUME HandoffInv, TurnsInv, HandoffInv', Keeps, NoRefusal', NEW j \in Jobs, Assign(j)
    PROVE  TurnsInv' /\ AuthorityStep
<1>1. ReceiptsOK BY DEF HandoffInv, TypeOK
<1>2. SendEvent(j, "assignment", None, FALSE) BY DEF Assign, SendAssignment
<1>3. UNCHANGED <<controller, linked>> /\ Pump(writing, wire) /\ j \in Known
      BY <1>2 DEF SendEvent
<1>4. OwnerFrame /\ UNCHANGED <<row, turn>> BY <1>3 DEF Assign, OwnerFrame, link, durable
<1> DEFINE r == receipts[j]
           kept == Restricted(r.events, DOMAIN r.events \ {None})
           event(p) == [seq |-> r.sequence + 1, pending |-> p]
<1>5. IsReceipt(r) /\ DOMAIN r.events \subseteq {"assignment"}
      BY <1>1, <1>3 DEF ReceiptsOK, TurnsInv, JobOK, ReceiptTurn
<1>6. DOMAIN kept = DOMAIN r.events
      BY <1>5, JournalAssumption DEF Restricted, EventKeys
<1>7. ~(Cardinality(DOMAIN kept \cup {"assignment"}) > EventCapacity)
  <2>1. DOMAIN kept \cup {"assignment"} = {"assignment"} BY <1>5, <1>6
  <2>2. Cardinality(DOMAIN kept \cup {"assignment"}) = 1 BY <2>1, FS_Singleton
  <2>3. ~(1 > EventCapacity) BY JournalAssumption
  <2> QED BY <2>2, <2>3
<1>8. \E p : receipts' = [receipts EXCEPT ![j] =
                [r EXCEPT !.sequence = r.sequence + 1, !.events = SetEvent(kept, "assignment", event(p))]]
  <2> DEFINE k == DOMAIN kept \cup {"assignment"}
  <2>1. ~(FALSE \/ Cardinality(k) > EventCapacity) BY <1>7
  <2> QED BY <1>2, <2>1 DEF SendEvent
<1>9. PICK q : receipts' = [receipts EXCEPT ![j] = q] /\ SameCore(r, q)
  <2>1. PICK p : receipts' = [receipts EXCEPT ![j] =
                   [r EXCEPT !.sequence = r.sequence + 1, !.events = SetEvent(kept, "assignment", event(p))]]
        BY <1>8
  <2> DEFINE f == SetEvent(kept, "assignment", event(p))
             q == [r EXCEPT !.sequence = r.sequence + 1, !.events = f]
  <2>2. DOMAIN f = DOMAIN r.events \cup {"assignment"} BY <1>6 DEF SetEvent
  <2>3. receipts' = [receipts EXCEPT ![j] = q] BY <2>1
  <2> HIDE DEF f, r
  <2>4. SameCore(r, q) BY <1>5, <2>2 DEF SameCore, IsReceipt
  <2> QED BY <2>3, <2>4
<1> HIDE DEF r
<1>10. \A i \in Jobs : SameReceipt(i) BY <1>9 DEF SameReceipt, SameCore, Known, r
<1>11. TurnsInv' BY <1>3, <1>4, <1>10, OwnerTurn DEF TurnsInv
<1> QED BY <1>4, <1>11 DEF AuthorityStep

LEMMA FinishTurn ==
    ASSUME HandoffInv, TurnsInv, HandoffInv', Keeps, NoRefusal',
           NEW id \in Ids, NEW outcome \in Outcomes, Finish(id, outcome)
    PROVE  TurnsInv' /\ AuthorityStep
<1>1. /\ SendResponse(id, outcome, FALSE) \/ SendUnwantedResponse(id)
      /\ turn' = IF id \in Jobs THEN [turn EXCEPT ![id] = outcome] ELSE turn
      BY DEF Finish
<1>2. /\ UNCHANGED <<controller, linked>> /\ id \in Known /\ ~Terminal(id)
      /\ Pump(writing, wire) \/ wire' = wire
      /\ \A i \in Known : i # id => i \in DOMAIN receipts' /\ receipts'[i] = receipts[i]
      /\ DOMAIN receipts' \subseteq Known
      BY <1>1 DEF SendResponse, SendUnwantedResponse, Forget, Known
<1>3. OwnerFrame /\ UNCHANGED <<row, settling>> BY <1>2 DEF Finish, OwnerFrame, link, durable, proxy
<1>4. \A j \in Jobs : j # id => SameReceipt(j) BY <1>2 DEF SameReceipt, SameCore, Known
<1>5. CASE id \notin Jobs
  <2>1. turn' = turn BY <1>1, <1>5
  <2>2. \A j \in Jobs : SameReceipt(j) BY <1>4, <1>5
  <2>3. TurnsInv' BY <1>2, <1>3, <2>1, <2>2, OwnerTurn DEF TurnsInv
  <2> QED BY <1>3, <2>1, <2>3 DEF AuthorityStep
<1>6. CASE id \in Jobs
  <2>1. /\ turn' = [turn EXCEPT ![id] = outcome] /\ turn \in [Jobs -> TurnStates] /\ TurnOK(id)
        /\ ReceiptTurn(receipts[id], turn[id], row[id])
        BY <1>1, <1>2, <1>6 DEF TurnsInv, JobOK
  <2>2. turn[id] = "running" /\ row[id] = "running" BY <1>2, <2>1 DEF ReceiptTurn, Terminal
  <2>3. ~Settling(id) BY <2>1, <2>2, OutcomesAreFinal DEF TurnOK
  <2>4. turn' \in [Jobs -> TurnStates] /\ turn'[id] = outcome /\ \A j \in Jobs : j # id => turn'[j] = turn[j]
        BY <1>6, <2>1 DEF TurnStates
  <2>5. SendResponse(id, outcome, FALSE) BY <1>1, <2>1 DEF SendUnwantedResponse, ReceiptTurn
  <2> DEFINE r == receipts[id]
             q == [r EXCEPT !.sequence = r.sequence + 1, !.terminalSeq = r.sequence + 1,
                            !.terminal = outcome,
                            !.events = Restricted(r.events, DOMAIN r.events \cap {"assignment"})]
  <2>6. receipts' = [receipts EXCEPT ![id] = q]
    <3>1. ~r.failed BY <2>1 DEF ReceiptTurn
    <3> QED BY <2>5, <3>1 DEF SendResponse
  <2>7. ReceiptTurn(q, outcome, row[id])
    <3>1. IsReceipt(r) /\ ReceiptTurn(r, "running", "running")
          BY <1>2, <2>1, <2>2 DEF HandoffInv, TypeOK, ReceiptsOK
    <3>2. DOMAIN Restricted(r.events, DOMAIN r.events \cap {"assignment"}) \subseteq {"assignment"}
          BY DEF Restricted
    <3> DEFINE f == Restricted(r.events, DOMAIN r.events \cap {"assignment"})
    <3> HIDE DEF r, f
    <3>3. /\ q.failed = r.failed /\ q.abandoned = r.abandoned /\ q.acknowledged = r.acknowledged
          /\ q.terminal = outcome /\ q.events = f
          BY <3>1 DEF IsReceipt, f
    <3> HIDE DEF q
    <3> QED BY <3>1, <3>2, <3>3, OutcomesAreFinal DEF ReceiptTurn, f
  <2> HIDE DEF r, q
  <2>8. id \in DOMAIN receipts' /\ receipts'[id] = q BY <1>2, <2>6 DEF Known
  <2>9. TurnOK(id)' BY <1>3, <2>2, <2>3, <2>4, <2>8, OutcomesAreFinal DEF TurnOK, Known, Settling
  <2>10. JobOK(id)' BY <1>3, <2>4, <2>7, <2>8, <2>9 DEF JobOK
  <2>11. Stands(id) BY <2>2, OutcomesAreFinal DEF Stands
  <2>12. TurnsInv' BY <1>2, <1>3, <1>4, <2>4, <2>10, <2>11, OwnerTurn
  <2>13. Turns!Finish(id, outcome) BY <1>3, <2>1, <2>2 DEF Turns!Finish
  <2> QED BY <1>6, <2>12, <2>13 DEF AuthorityStep, Turns!TurnNext
<1> QED BY <1>5, <1>6

\* An outcome is forgotten when its row has it, and no copy of the request is left.
LEMMA OwnerAcknowledgesTurn ==
    ASSUME HandoffInv, TurnsInv, HandoffInv', Keeps, NoRefusal', OwnerAcknowledges
    PROVE  TurnsInv' /\ AuthorityStep
<1>1. /\ ReceiptsOK /\ CommandsOK /\ RowsOK /\ PendingOK
      /\ toOwner # <<>> /\ Head(toOwner).kind = "acknowledge"
      BY DEF HandoffInv, TypeOK, OwnerAcknowledges, OwnerReads
<1> PICK c \in Commands : c = Head(toOwner) BY <1>1, HeadCommand
<1> DEFINE id == c.id
<1>2. id \in Ids /\ Acknowledgeable(id) BY <1>1, HeadCommand DEF CommandOK
<1>3. Acknowledge(id) BY DEF OwnerAcknowledges
<1>4. ~Asks(id) BY <1>1, TailLast DEF Asks, CommandsOK
<1> HIDE DEF id
<1>5. PICK flight : Pump(flight, wire) \/ wire' = wire BY <1>3 DEF Acknowledge
<1>6. OwnerFrame /\ UNCHANGED <<row, settling, turn>>
      BY <1>1, <1>3 DEF OwnerAcknowledges, OwnerRead, OwnerFrame, Acknowledge, durable, proxy
<1>7. CASE id \in Known /\ Terminal(id) /\ Forget(id)
  <2>1. /\ DOMAIN receipts' = Known \ {id} /\ \A i \in Known \ {id} : receipts'[i] = receipts[i]
        BY <1>7 DEF Forget, Known
  <2>2. \A j \in Jobs : j # id => SameReceipt(j) BY <2>1 DEF SameReceipt, SameCore
  <2>3. ASSUME id \in Jobs PROVE JobOK(id)' /\ Stands(id)
    <3>1. Done(id) /\ row[id] \notin {"absent", "running"} /\ id \notin DOMAIN receipts'
          BY <1>1, <1>2, <2>1, <2>3 DEF Acknowledgeable, Settled, RowOf, RowsOK
    <3>2. turn[id] \in Outcomes BY <1>7, <2>3 DEF TurnsInv, JobOK, ReceiptTurn, Terminal
    <3>3. Done(id)' /\ ~Asks(id)' BY <1>2, <1>4, <3>1 DEF Keeps
    <3>4. ~Settling(id)' BY <1>1, <1>6, <3>1 DEF RowsOK, Settling
    <3>5. TurnOK(id)' BY <1>6, <3>1, <3>2, <3>3, <3>4, OutcomesAreFinal DEF TurnOK
    <3>6. Stands(id) BY <1>6, <3>1 DEF Stands, Fixed
    <3> QED BY <3>1, <3>5, <3>6 DEF JobOK, Known
  <2>4. TurnsInv' BY <1>5, <1>6, <2>2, <2>3, OwnerTurn DEF TurnsInv
  <2> QED BY <1>6, <2>4 DEF AuthorityStep
<1>8. CASE id \in Known /\ ~Terminal(id) /\ receipts' = [receipts EXCEPT ![id].acknowledged = TRUE]
  <2>1. id \notin Jobs
    <3> SUFFICES ASSUME id \in Jobs PROVE FALSE OBVIOUS
    <3>1. row[id] = "running" BY <1>8 DEF TurnsInv, JobOK, ReceiptTurn, Terminal
    <3>2. row[id] # "running" BY <1>1, <1>2 DEF Acknowledgeable, Settled, RowOf, RowsOK
    <3> QED BY <3>1, <3>2
  <2>2. \A j \in Jobs : SameReceipt(j) BY <1>8, <2>1 DEF SameReceipt, SameCore, Known
  <2>3. TurnsInv' BY <1>5, <1>6, <2>2, OwnerTurn DEF TurnsInv
  <2> QED BY <1>6, <2>3 DEF AuthorityStep
<1>9. CASE UNCHANGED receipts
  <2>1. \A j \in Jobs : SameReceipt(j) BY <1>9, SameReceiptsCore
  <2>2. TurnsInv' BY <1>5, <1>6, <2>1, OwnerTurn DEF TurnsInv
  <2> QED BY <1>6, <2>2 DEF AuthorityStep
<1> QED BY <1>3, <1>7, <1>8, <1>9 DEF Acknowledge

-----------------------------------------------------------------------------
(* The rows *)

LEMMA StartJobTurn ==
    ASSUME HandoffInv, TurnsInv, HandoffInv', Keeps, NoRefusal', NEW j \in Jobs, StartJob(j)
    PROVE  TurnsInv' /\ AuthorityStep
<1>1. RowsOK /\ RowsOK' /\ EntriesOK /\ wire \in Seq(WireMessages) BY DEF HandoffInv, MessagesOK
<1>2. /\ row[j] = "absent" /\ row' = [row EXCEPT ![j] = "running"]
      /\ UNCHANGED <<receipts, wire, turn, alive>>
      /\ settling' = settling \/ Deliver(j, "unavailable")
      BY DEF StartJob, Dispatch, journalVars
<1>3. row'[j] = "running" /\ \A i \in Jobs : i # j => row'[i] = row[i] BY <1>1, <1>2 DEF RowsOK
<1>4. turn[j] = "none" /\ turn \in [Jobs -> TurnStates] BY <1>2 DEF TurnsInv, JobOK, TurnOK
<1>5. ~Settling(j) /\ j \notin Known BY <1>1, <1>2 DEF Settling, RowsOK, EntriesOK, Started
<1>6. \A i \in Jobs : i # j => SameJob(i)
  <2>1. \A i : i # j /\ Settling(i)' => Settling(i) /\ settling'[i] = settling[i] BY <1>2 DEF Settling, Deliver
  <2>2. \A i : Settling(i) => Settling(i)' BY <1>2 DEF Settling, Deliver
  <2> QED BY <1>2, <1>3, <2>1, <2>2, SameReceiptsCore DEF SameJob
<1>7. Settling(j)' => settling'[j] = "unavailable" BY <1>2, <1>5 DEF Settling, Deliver
<1>8. TurnOK(j)' BY <1>2, <1>3, <1>4, <1>7, OutcomesAreFinal DEF TurnOK
<1>9. JobOK(j)' BY <1>2, <1>5, <1>8 DEF JobOK, Known
<1>10. Stands(j) BY <1>4, OutcomesAreFinal DEF Stands
<1>11. TurnsInv' BY <1>1, <1>2, <1>4, <1>6, <1>9, <1>10, TurnStep
<1>12. Turns!Admit(j) BY <1>2 DEF Turns!Admit
<1> QED BY <1>11, <1>12 DEF AuthorityStep, Turns!TurnNext

\* The row gets the outcome of the turn, or a failure when there is none to come.
LEMMA CommitTurn ==
    ASSUME HandoffInv, TurnsInv, HandoffInv', Keeps, NoRefusal', NEW j \in Jobs, Commit(j)
    PROVE  TurnsInv' /\ AuthorityStep
<1>1. RowsOK /\ PendingOK /\ wire \in Seq(WireMessages) BY DEF HandoffInv, MessagesOK
<1>2. /\ Settling(j) /\ row' = [row EXCEPT ![j] = settling[j]]
      /\ settling' = [x \in DOMAIN settling \ {j} |-> settling[x]]
      /\ UNCHANGED <<receipts, wire, turn, alive>>
      BY DEF Commit, journalVars
<1>3. row'[j] = settling[j] /\ row[j] = "running" /\ \A i \in Jobs : i # j => row'[i] = row[i]
      BY <1>1, <1>2 DEF RowsOK, Settling
<1>4. TurnOK(j) /\ turn \in [Jobs -> TurnStates] /\ j \in Ids BY IdKinds DEF TurnsInv, JobOK
<1>5. \/ settling[j] \in Outcomes /\ turn[j] = settling[j]
      \/ settling[j] \in {"unavailable", "worker-lost"} /\ turn[j] \in {"none", "lost"} /\ Gone(j)
      BY <1>1, <1>2, <1>4 DEF TurnOK, RowsOK, Settling
<1>6. \A i \in Jobs : i # j => SameJob(i)
  <2>1. \A i : i # j => (Settling(i)' <=> Settling(i)) /\ (Settling(i) => settling'[i] = settling[i])
        BY <1>2 DEF Settling
  <2> QED BY <1>2, <1>3, <2>1, SameReceiptsCore DEF SameJob
<1>7. ~Settling(j)' /\ row'[j] \notin {"absent", "running"} BY <1>2, <1>3, <1>5, OutcomesAreFinal DEF Settling
<1>8. Done(j) /\ (Asks(j) => j \in Known)
  <2>1. Started(j) /\ ~Has(pending, j) BY <1>1, <1>2, <1>3, <1>4 DEF Started, PendingOK
  <2>2. Asks(j) => j \in Known BY <1>4, <1>5, OutcomesAreFinal DEF TurnOK, Gone, Closed
  <2> QED BY <2>1, <2>2 DEF Done, Relevant
<1>9. Done(j)' /\ (Asks(j)' => j \in Known) BY <1>4, <1>8 DEF Keeps
<1>10. TurnOK(j)' BY <1>2, <1>4, <1>7, <1>9 DEF TurnOK, Known
<1>11. j \in Known => ReceiptTurn(receipts[j], turn[j], row'[j])
  <2> SUFFICES ASSUME j \in Known PROVE ReceiptTurn(receipts[j], turn[j], row'[j]) OBVIOUS
  <2>1. ReceiptTurn(receipts[j], turn[j], row[j]) BY DEF TurnsInv, JobOK
  <2>2. turn[j] # "running" BY <1>5, OutcomesAreFinal
  <2> QED BY <2>1, <2>2 DEF ReceiptTurn
<1>12. JobOK(j)' BY <1>2, <1>10, <1>11 DEF JobOK, Known
<1>13. Stands(j) BY <1>2, <1>7 DEF Stands, Fixed
<1>14. TurnsInv' BY <1>1, <1>2, <1>4, <1>6, <1>12, <1>13, TurnStep
<1>15. Turns!Record(j) \/ \E f \in {"unavailable", "worker-lost", "capacity"} : Turns!RecordFailure(j, f)
  <2>1. CASE settling[j] \in Outcomes /\ turn[j] = settling[j] BY <1>2, <1>3, <2>1 DEF Turns!Record
  <2>2. CASE settling[j] \in {"unavailable", "worker-lost"} /\ turn[j] \in {"none", "lost"}
        BY <1>2, <1>3, <2>2 DEF Turns!RecordFailure
  <2> QED BY <1>5, <2>1, <2>2
<1> QED BY <1>14, <1>15 DEF AuthorityStep, Turns!TurnNext

LEMMA GetResponseTurn ==
    ASSUME HandoffInv, TurnsInv, HandoffInv', Keeps, NoRefusal', GetResponse, Msg.id \in Jobs
    PROVE  TurnsInv' /\ AuthorityStep
<1>1. RowsOK /\ PendingOK /\ wire \in Seq(WireMessages) BY DEF HandoffInv, MessagesOK
<1>2. /\ wire # <<>> /\ peer # "down" /\ Read /\ Msg.kind \in {"response", "error"}
      BY DEF GetResponse, Incoming, Msg
<1>3. MessageOK(Msg) /\ Msg \in WireMessages /\ Has(wire, Msg)
      BY <1>1, <1>2, ReadMessage, TailHas DEF Msg
<1>4. MessageTurn(Msg) BY <1>3 DEF TurnsInv, TurnMessages
<1> PICK id \in Jobs : id = Msg.id OBVIOUS
<1> PICK outcome : outcome = Msg.outcome OBVIOUS
<1>5. \/ outcome \in Outcomes /\ outcome = turn[id]
      \/ outcome = "worker-lost" /\ Gone(id)
      BY <1>2, <1>3, <1>4 DEF MessageOK, MessageTurn
<1>6. /\ UNCHANGED <<row, turn, alive, receipts>> /\ wire' = Tail(wire)
      /\ Has(pending, id) /\ Deliver(id, outcome)
      BY DEF GetResponse, Read, durable, Relevant, AcknowledgedLater
<1>7. id \in Ids /\ row[id] = "running" /\ ~Settling(id) BY <1>1, <1>6, IdKinds DEF PendingOK
<1>8. TurnOK(id) /\ turn \in [Jobs -> TurnStates] BY DEF TurnsInv, JobOK
<1>9. /\ DOMAIN settling' = DOMAIN settling \cup {id} /\ settling'[id] = outcome
      /\ \A i \in DOMAIN settling : i # id => settling'[i] = settling[i]
      BY <1>6 DEF Deliver
<1>10. \A i \in Jobs : i # id => SameJob(i)
       BY <1>6, <1>9, SameReceiptsCore DEF SameJob, Settling
<1>11. \/ outcome \in Outcomes /\ outcome = turn[id]
       \/ outcome = "worker-lost" /\ turn[id] \in {"none", "lost"}
       BY <1>5, <1>7, <1>8 DEF Gone, TurnOK, TurnStates
<1>12. JobOK(id)'
  <2> DEFINE Judged == \/ settling'[id] \in Outcomes /\ turn'[id] = settling'[id]
                       \/ settling'[id] \in {"unavailable", "worker-lost"} /\ turn'[id] \in {"none", "lost"}
  <2>1. Settling(id)' /\ Judged BY <1>6, <1>9, <1>11 DEF Settling
  <2> HIDE DEF Judged
  <2>2. (Asks(id)' => Asks(id) \/ ~Done(id)) /\ (~Done(id)' => ~Done(id)) BY <1>7 DEF Keeps
  <2>3. ~Done(id) /\ id \notin Known => turn[id] = "none"
    <3>1. alive BY <1>2 DEF HandoffInv, PeersOK
    <3> QED BY <1>8, <3>1 DEF TurnOK
  <2>4. TurnOK(id)' BY <1>6, <1>7, <1>8, <2>1, <2>2, <2>3 DEF TurnOK, Judged, Known
  <2>5. id \in Known => ReceiptTurn(receipts[id], turn[id], row[id]) BY DEF TurnsInv, JobOK
  <2> QED BY <1>6, <2>4, <2>5 DEF JobOK, Known
<1>13. Stands(id) BY <1>6 DEF Stands, Fixed, Known
<1>14. TurnsInv'
  <2> DEFINE w == wire'
  <2>1. w \in Seq(WireMessages) /\ wire' = w /\ \A m \in WireMessages : Has(w, m) => Has(wire, m)
        BY <1>1, <1>2, <1>6, TailHas
  <2> HIDE DEF w
  <2> QED BY <1>6, <1>8, <1>10, <1>12, <1>13, <2>1, TurnStep
<1> QED BY <1>6, <1>14 DEF AuthorityStep

-----------------------------------------------------------------------------
(* Restarts, and a new link *)

LEMMA EstablishTurn ==
    ASSUME HandoffInv, TurnsInv, HandoffInv', Keeps, NoRefusal', Establish
    PROVE  TurnsInv' /\ AuthorityStep
<1>1. ReceiptsOK BY DEF HandoffInv, TypeOK
<1> DEFINE ready == Message("ready", None, None, 0, {}, None)
           D == Discarded(Controller)
<1>2. /\ Pump(NoWrite, <<ready>>)
      /\ receipts' = [id \in Known \ D |->
            [receipts[id] EXCEPT !.sent = MaxSafe,
               !.abandoned = @ \/ (Replaced(Controller) /\ ~receipts[id].retained)]]
      /\ UNCHANGED <<row, turn, settling, alive>>
      BY DEF Establish, Connect, durable, proxy
<1>3. \A j \in Jobs : j \in Known => j \notin D /\ receipts[j].retained
      BY <1>1 DEF ReceiptsOK, Jobs, Discarded
<1> HIDE DEF D
<1>4. \A j \in Jobs : SameReceipt(j)
  <2> SUFFICES ASSUME NEW j \in Jobs, j \in Known PROVE SameCore(receipts[j], receipts'[j])
      BY <1>2, <1>3 DEF SameReceipt
  <2> DEFINE r == receipts[j]
             b == Replaced(Controller)
  <2>1. IsReceipt(r) /\ r.retained BY <1>1, <1>3 DEF ReceiptsOK
  <2>2. receipts'[j] = [r EXCEPT !.sent = MaxSafe, !.abandoned = r.abandoned \/ (b /\ ~r.retained)]
        BY <1>2, <1>3
  <2> HIDE DEF r, b
  <2>3. SameCore(r, [r EXCEPT !.sent = MaxSafe, !.abandoned = r.abandoned \/ (b /\ ~r.retained)])
        BY <2>1 DEF SameCore, IsReceipt
  <2> QED BY <2>2, <2>3 DEF r
<1>5. \A j \in Jobs : SameJob(j) BY <1>2, <1>4 DEF SameJob, Settling
<1>6. ready \in WireMessages /\ ready.kind = "ready" BY JournalAssumption DEF Message, WireMessages, Numbers
<1> HIDE DEF ready
<1>7. <<ready>> \in Seq(WireMessages) /\ \A m : Has(<<ready>>, m) => m.kind = "ready" BY <1>6 DEF Has
<1>8. turn' \in [Jobs -> TurnStates] BY <1>2 DEF TurnsInv
<1>9. Pump(NoWrite, <<ready>>) BY <1>2
<1>10. TurnsInv'
  <2> DEFINE w == <<ready>>
  <2>1. w \in Seq(WireMessages) /\ Pump(NoWrite, w) /\ \A m \in WireMessages : Has(w, m) => m.kind = "ready"
        BY <1>7, <1>9
  <2>2. \A j \in Jobs : SameJob(j) /\ (alive' => alive) BY <1>2, <1>5
  <2> HIDE DEF w
  <2> QED BY <1>8, <2>1, <2>2, TurnStep
<1> QED BY <1>2, <1>10 DEF AuthorityStep

\* Of an outcome that only the controller held nothing is left.
LEMMA ControllerRestartsTurn ==
    ASSUME HandoffInv, TurnsInv, HandoffInv', Keeps, NoRefusal', ControllerRestarts
    PROVE  TurnsInv' /\ AuthorityStep
<1>1. RowsOK /\ PendingOK /\ wire \in Seq(WireMessages) BY DEF HandoffInv, MessagesOK
<1> DEFINE S == {j \in Jobs : Settling(j) /\ j \notin Known /\ turn[j] # "none"}
<1>2. /\ settling' = <<>> /\ UNCHANGED <<row, alive, receipts>> /\ wire' \in {wire, <<>>}
      /\ turn' = [j \in Jobs |-> IF j \in S THEN "lost" ELSE turn[j]]
      BY DEF ControllerRestarts, Lost, durable, journalVars
<1>3. turn \in [Jobs -> TurnStates] /\ \A j \in Jobs : TurnOK(j) BY DEF TurnsInv, JobOK
<1>4. turn' \in [Jobs -> TurnStates] BY <1>2, <1>3 DEF TurnStates
<1>5. \A j \in Jobs : ~Settling(j)' BY <1>2 DEF Settling
<1>6. \A j \in S : row[j] = "running" /\ turn[j] # "none" /\ j \in Jobs /\ Settling(j) /\ j \notin Known
      BY <1>1 DEF RowsOK, Settling
<1>7. \A j \in Jobs : j \notin S => (Settling(j) => j \in Known \/ turn[j] \notin Outcomes)
      BY OutcomesAreFinal
<1> HIDE DEF S
<1>8. \A j \in Jobs : j \notin S => SameJob(j)
      BY <1>2, <1>5, <1>7, SameReceiptsCore DEF SameJob
<1>9. ASSUME NEW j \in S PROVE JobOK(j)' /\ Stands(j)
  <2>1. j \in Jobs /\ j \in Ids /\ row'[j] = "running" /\ turn'[j] = "lost" /\ j \notin DOMAIN receipts'
        BY <1>2, <1>6, <1>9, IdKinds DEF Known
  <2>2. Done(j) /\ ~Asks(j)
    <3>1. Done(j) BY <1>1, <1>6, <1>9, <2>1 DEF Done, Started, Relevant, PendingOK
    <3>2. ~Asks(j) BY <1>3, <1>6, <1>9, <2>1 DEF TurnOK
    <3> QED BY <3>1, <3>2
  <2>3. Done(j)' /\ ~Asks(j)' BY <2>1, <2>2 DEF Keeps
  <2>4. TurnOK(j)' BY <1>5, <2>1, <2>3, OutcomesAreFinal DEF TurnOK
  <2>5. Stands(j) BY <1>6, <1>9 DEF Stands, Fixed
  <2> QED BY <2>1, <2>4, <2>5 DEF JobOK, Known
<1>10. TurnsInv'
  <2> DEFINE w == wire'
  <2>1. w \in Seq(WireMessages) /\ wire' = w /\ \A m \in WireMessages : Has(w, m) => Has(wire, m)
        BY <1>1, <1>2, NothingHas
  <2> HIDE DEF w
  <2> QED BY <1>2, <1>4, <1>8, <1>9, <2>1, TurnStep
<1>11. Turns!Lose(S) BY <1>2, <1>6 DEF Turns!Lose
<1>12. S \in SUBSET Jobs BY DEF S
<1> QED BY <1>10, <1>11, <1>12 DEF AuthorityStep, Turns!TurnNext

LEMMA OwnerExitsTurn ==
    ASSUME HandoffInv, TurnsInv, HandoffInv', Keeps, NoRefusal', OwnerExits
    PROVE  TurnsInv' /\ AuthorityStep
<1> DEFINE S == {j \in Jobs : ~(turn[j] = "none" \/ row[j] # "running" \/ Settling(j))}
<1>1. /\ receipts' = Empty /\ wire' = <<>> /\ toOwner' = <<>> /\ alive' = FALSE
      /\ UNCHANGED <<row, settling>>
      /\ turn' = [j \in Jobs |-> IF j \in S THEN "lost" ELSE turn[j]]
      BY DEF OwnerExits, durable, proxy
<1>2. turn \in [Jobs -> TurnStates] /\ \A j \in Jobs : JobOK(j) BY DEF TurnsInv
<1>3. turn' \in [Jobs -> TurnStates] BY <1>1, <1>2 DEF TurnStates
<1>4. ASSUME NEW j \in Jobs PROVE JobOK(j)'
  <2>1. TurnOK(j) /\ (j \in Known => ReceiptTurn(receipts[j], turn[j], row[j])) BY <1>2 DEF JobOK
  <2>2. ~Asks(j)' /\ j \notin Known' BY <1>1, NothingHas DEF Asks, Known, Empty, Has
  <2>3. Settling(j)' <=> Settling(j) BY <1>1 DEF Settling
  <2>4. CASE j \in S
    <3>1. turn'[j] = "lost" /\ row[j] = "running" /\ ~Settling(j) BY <1>1, <2>4
    <3>2. TurnOK(j)' BY <1>1, <2>2, <2>3, <3>1, OutcomesAreFinal DEF TurnOK
    <3> QED BY <2>2, <3>2 DEF JobOK
  <2>5. CASE j \notin S
    <3>1. turn'[j] = turn[j] /\ (turn[j] = "none" \/ row[j] # "running" \/ Settling(j)) BY <1>1, <2>5
    <3>2. turn[j] # "running"
      <4> SUFFICES ASSUME turn[j] = "running" PROVE FALSE OBVIOUS
      <4>1. row[j] = "running" BY <2>1, OutcomesAreFinal DEF TurnOK, ReceiptTurn
      <4>2. ~Settling(j) BY <2>1, OutcomesAreFinal DEF TurnOK
      <4> QED BY <3>1, <4>1, <4>2
    <3>3. TurnOK(j)' BY <1>1, <2>1, <2>2, <2>3, <3>1, <3>2, OutcomesAreFinal DEF TurnOK
    <3> QED BY <2>2, <3>3 DEF JobOK
  <2> QED BY <2>4, <2>5
<1>5. TurnMessages' BY <1>1, NothingHas DEF TurnMessages, Has
<1>6. Turns!Lose(S) BY <1>1 DEF Turns!Lose
<1>7. S \in SUBSET Jobs OBVIOUS
<1> QED BY <1>3, <1>4, <1>5, <1>6, <1>7 DEF TurnsInv, AuthorityStep, Turns!TurnNext

\* What was asked of an owner that is gone is lost, and was not answered.
LEMMA SeeExitTurn ==
    ASSUME HandoffInv, TurnsInv, HandoffInv', Keeps, NoRefusal', SeeExit
    PROVE  TurnsInv' /\ AuthorityStep
<1>1. PendingOK /\ RowsOK /\ PeersOK /\ ~alive BY DEF HandoffInv, SeeExit
<1>2. Known = {} /\ wire = <<>> /\ toOwner = <<>> BY <1>1 DEF PeersOK
<1>3. /\ UNCHANGED <<receipts, wire, toOwner, row, turn>> /\ pending' = <<>>
      /\ settling' = [j \in DOMAIN settling \cup (Range(pending) \cap Jobs) |->
                        IF j \in DOMAIN settling THEN settling[j] ELSE "worker-lost"]
      BY DEF SeeExit, ForgottenAll, journalVars, durable
<1>4. turn \in [Jobs -> TurnStates] /\ \A j \in Jobs : TurnOK(j) BY DEF TurnsInv, JobOK
<1>5. ASSUME NEW j \in Jobs PROVE JobOK(j)'
  <2>1. j \notin Known /\ j \notin Known' BY <1>2, <1>3 DEF Known
  <2>2. ~Asks(j)' BY <1>2, <1>3, NothingHas DEF Asks, Has
  <2>3. Done(j)' \/ row'[j] = "absent" BY <1>3, NothingHas DEF Done, Started, Relevant, Has
  <2>4. Settling(j) => Settling(j)' /\ settling'[j] = settling[j] BY <1>3 DEF Settling
  <2>5. ASSUME Settling(j)', ~Settling(j)
        PROVE  settling'[j] = "worker-lost" /\ turn[j] \in {"none", "lost"}
    <3>1. settling'[j] = "worker-lost" /\ Has(pending, j) BY <1>3, <2>5 DEF Settling, Range, Has
    <3>2. row[j] = "running" BY <1>1, <3>1, IdKinds DEF PendingOK
    <3> QED BY <1>4, <2>1, <2>5, <3>1, <3>2 DEF TurnOK, TurnStates
  <2>6. TurnOK(j)' BY <1>3, <1>4, <2>1, <2>2, <2>3, <2>4, <2>5 DEF TurnOK
  <2> QED BY <2>1, <2>6 DEF JobOK
<1>6. TurnMessages' BY <1>2, <1>3, NothingHas DEF TurnMessages, Has
<1> QED BY <1>3, <1>4, <1>5, <1>6 DEF TurnsInv, AuthorityStep

-----------------------------------------------------------------------------
LEMMA TurnsInit == HandoffInit => TurnsInv /\ Turns!TurnInit
<1> SUFFICES ASSUME HandoffInit PROVE TurnsInv /\ Turns!TurnInit OBVIOUS
<1>1. /\ row = [j \in Jobs |-> "absent"] /\ turn = [j \in Jobs |-> "none"]
      /\ wire = <<>> /\ toOwner = <<>> /\ settling = <<>> /\ Known = {}
      BY DEF HandoffInit, JournalInit, Known, Empty
<1>2. \A j \in Jobs : TurnOK(j)
      BY <1>1, NothingHas, OutcomesAreFinal DEF TurnOK, Asks, Settling
<1>3. TurnMessages BY <1>1, NothingHas DEF TurnMessages
<1>4. TurnsInv BY <1>1, <1>2, <1>3 DEF TurnsInv, JobOK, TurnStates
<1> QED BY <1>1, <1>4 DEF Turns!TurnInit

LEMMA TurnsStep ==
    ASSUME HandoffInv, TurnsInv, [HandoffNext]_handoffVars, HandoffInv', Keeps, NoRefusal'
    PROVE  TurnsInv' /\ AuthorityStep
<1>1. ASSUME NEW j \in Jobs, StartJob(j) \/ Commit(j) \/ Assign(j) PROVE TurnsInv' /\ AuthorityStep
      BY <1>1, StartJobTurn, CommitTurn, AssignTurn
<1>2. CASE (\E r \in Queries : StartQuery(r)) \/ RetryAcks \/ ReplayNext \/ LinkDrops \/ AssignmentRefused
           \/ OwnerNotices \/ UNCHANGED handoffVars
      BY <1>2, WritesQuietly, QuietTurn
<1>3. ASSUME NEW id \in Ids, NEW o \in Outcomes, Finish(id, o) PROVE TurnsInv' /\ AuthorityStep
      BY <1>3, FinishTurn
<1>4. CASE ControllerGets
  <2>1. CASE GetResponse /\ Msg.id \in Jobs BY <2>1, GetResponseTurn
  <2>2. CASE GetReady \/ GetAcknowledged \/ GetAssignment \/ IgnoreMessage \/ (GetResponse /\ Msg.id \notin Jobs)
        BY <2>2, ReadsQuietly, QuietTurn
  <2> QED BY <1>4, <2>1, <2>2 DEF ControllerGets
<1>5. CASE OwnerHandles
      BY <1>5, OwnerAdmitsTurn, OwnerRecoversTurn, OwnerAcknowledgesTurn DEF OwnerHandles
<1>6. CASE OwnerWrites BY <1>6, OwnerWritesTurn
<1>7. CASE Establish BY <1>7, EstablishTurn
<1>8. CASE ControllerRestarts BY <1>8, ControllerRestartsTurn
<1>9. CASE OwnerExits BY <1>9, OwnerExitsTurn
<1>10. CASE SeeExit BY <1>10, SeeExitTurn
<1> QED BY <1>1, <1>2, <1>3, <1>4, <1>5, <1>6, <1>7, <1>8, <1>9, <1>10 DEF HandoffNext

\* While no Job is refused for capacity, row and turn of every Job go through the
\* steps of TurnAuthority alone: a turn begins once and for a running row, and
\* the row ends with its outcome, whatever the link lost, repeated or delayed and
\* whichever process restarted.
THEOREM HandoffKeepsTheAuthority == HandoffSpec /\ []NoRefusal => ImplementsTurnAuthority
<1>1. HandoffInit => TurnsInv /\ Turns!TurnInit BY TurnsInit
<1>2. HandoffInv /\ TurnsInv /\ [HandoffNext]_handoffVars /\ HandoffInv' /\ NoRefusal'
        => TurnsInv' /\ [Turns!TurnNext]_<<row, turn>>
      BY HandoffStep, TurnsStep DEF AuthorityStep
<1> QED BY <1>1, <1>2, HandoffInvariant, PTL DEF HandoffSpec, ImplementsTurnAuthority, Turns!TurnSpec

-----------------------------------------------------------------------------
(* Lanes with room for every Job refuse none.                               *)

RoomForJobs ==
    \A j \in Jobs : Cardinality({id \in Ids : LaneOf[id] = LaneOf[j]}) <= Capacity[LaneOf[j]]

\* What a step adds to the queue of unsequenced messages is not the refusal of a Job.
Harmless(m) == m.kind = "error" /\ m.id \in Jobs => m.outcome # "capacity"
NoNewRefusal == \A m \in AuxMessages : Has(aux', m) => Has(aux, m) \/ Harmless(m)

LEMMA JobFindsRoom ==
    ASSUME RoomForJobs, ReceiptsOK, NEW j \in Jobs, j \notin Known
    PROVE  ~LaneFull(j)
<1> DEFINE lane == LaneOf[j]
           S == {id \in Ids : LaneOf[id] = lane}
<1>1. j \in Ids /\ lane \in Lanes /\ Capacity[lane] \in Nat BY IdKinds, JournalAssumption
<1>2. IsFiniteSet(S)
  <2>1. IsFiniteSet(Ids) /\ S \subseteq Ids BY JournalAssumption
  <2> QED BY <2>1, FS_Subset
<1>3. Used(lane) \subseteq S /\ Used(lane) # S
  <2>1. Used(lane) \subseteq S BY DEF Used, ReceiptsOK
  <2>2. j \in S /\ j \notin Used(lane) BY <1>1 DEF Used
  <2> QED BY <2>1, <2>2
<1>4. Cardinality(S) <= Capacity[lane] BY DEF RoomForJobs
<1> HIDE DEF S, lane
<1>5. Cardinality(Used(lane)) < Cardinality(S)
      /\ Cardinality(Used(lane)) \in Nat /\ Cardinality(S) \in Nat
  <2>1. IsFiniteSet(Used(lane)) BY <1>2, <1>3, FS_Subset
  <2> QED BY <1>2, <1>3, <2>1, FS_Subset, FS_CardinalityType
<1>6. ~(Cardinality(Used(lane)) >= Capacity[lane]) BY <1>1, <1>4, <1>5
<1> QED BY <1>6 DEF LaneFull, lane

LEMMA AdmitsQuietly ==
    ASSUME RoomForJobs, HandoffInv, OwnerHandles
    PROVE  NoNewRefusal
<1>1. ReceiptsOK /\ ControlOK /\ CommandsOK /\ toOwner # <<>>
      BY DEF HandoffInv, TypeOK, OwnerHandles, OwnerAdmits, OwnerRecovers, OwnerAcknowledges, OwnerReads
<1> PICK c \in Commands : c = Head(toOwner) BY <1>1, HeadCommand
<1> PICK id \in Ids : id = c.id BY <1>1, HeadCommand
<1>2. \/ Admit(id, c.after, Fingerprint) \/ Recover(id, c.after) \/ Acknowledge(id)
      BY DEF OwnerHandles, OwnerAdmits, OwnerRecovers, OwnerAcknowledges
<1>3. ASSUME NEW m \in AuxMessages, Harmless(m), aux' = AuxPut(m) PROVE NoNewRefusal
      BY <1>1, <1>3, AuxPutHas DEF NoNewRefusal
<1>4. CASE UNCHANGED aux BY <1>4 DEF NoNewRefusal, Has
<1>5. ASSUME NEW code \in {"capacity", "already-acknowledged", "identity-conflict", "worker-lost"},
             code = "capacity" => id \notin Jobs, ReplyError(id, code)
      PROVE  NoNewRefusal
  <2> DEFINE m == ErrorReply(id, code)
  <2>1. m \in AuxMessages BY JournalAssumption DEF ErrorReply, Message, AuxMessages, AuxKinds
  <2>2. Harmless(m) BY <1>5 DEF ErrorReply, Message, Harmless
  <2>3. aux' = AuxPut(m) BY <1>5 DEF ReplyError
  <2> HIDE DEF m
  <2> QED BY <1>3, <2>1, <2>2, <2>3
<1>6. CASE Acknowledge(id)
  <2> DEFINE m == AckReply(id)
  <2>1. m \in AuxMessages BY JournalAssumption DEF AckReply, Message, AuxMessages, AuxKinds
  <2>2. Harmless(m) BY DEF AckReply, Message, Harmless
  <2>3. aux' = AuxPut(m) BY <1>6 DEF Acknowledge
  <2> HIDE DEF m
  <2> QED BY <1>3, <2>1, <2>2, <2>3
<1>7. CASE AdmitOverCapacity(id)
  <2>1. id \notin Jobs BY <1>1, <1>7, JobFindsRoom DEF AdmitOverCapacity
  <2> QED BY <1>5, <1>7, <2>1 DEF AdmitOverCapacity
<1>8. CASE Recover(id, c.after) BY <1>4, <1>5, <1>8 DEF Recover, RecoverKnown, RecoverMissing
<1>9. CASE Admit(id, c.after, Fingerprint)
      BY <1>4, <1>5, <1>7, <1>9 DEF Admit, AdmitNew, AdmitExisting, AdmitConflict, AdmitTombstoned
<1> QED BY <1>2, <1>6, <1>8, <1>9

\* Everything else leaves the queue alone, takes its head, or empties it.
LEMMA QueueIsQuiet ==
    ASSUME HandoffInv, [HandoffNext]_handoffVars, ~OwnerHandles
    PROVE  NoNewRefusal
<1>1. ControlOK BY DEF HandoffInv, TypeOK
<1>2. aux' = aux \/ aux' = <<>> \/ (aux # <<>> /\ aux' = Tail(aux))
  <2>1. CASE \E j \in Jobs : StartJob(j) \/ Commit(j) \/ Assign(j)
        BY <2>1 DEF StartJob, Commit, Assign, SendAssignment, SendEvent, journalVars
  <2>2. CASE (\E r \in Queries : StartQuery(r)) \/ RetryAcks \/ ReplayNext \/ LinkDrops \/ AssignmentRefused
             \/ OwnerNotices \/ UNCHANGED handoffVars
        BY <2>2, WritesQuietly DEF ControllerFrame
  <2>3. CASE \E id \in Ids, o \in Outcomes : Finish(id, o)
        BY <2>3 DEF Finish, SendResponse, SendUnwantedResponse
  <2>4. CASE ControllerGets
        BY <2>4 DEF ControllerGets, GetReady, GetAcknowledged, GetAssignment, GetResponse, IgnoreMessage, Read
  <2>5. CASE OwnerWrites
    <3>1. CASE AuxWritten
      <4>1. writing \in Writes /\ writing.kind \in AuxKinds /\ (writing.current => aux # <<>>)
            BY <3>1 DEF AuxWritten, Finished, HandoffInv, TypeOK, WritingOK, Writes
      <4> QED BY <3>1, <4>1 DEF AuxWritten
    <3> QED BY <2>5, <3>1 DEF OwnerWrites, ReceiptWritten, PumpLater
  <2>6. CASE Establish \/ ControllerRestarts \/ OwnerExits \/ SeeExit
        BY <2>6 DEF Establish, Connect, ControllerRestarts, Lost, OwnerExits, SeeExit, journalVars
  <2> QED BY <2>1, <2>2, <2>3, <2>4, <2>5, <2>6 DEF HandoffNext
<1>3. aux \in Seq(AuxMessages) BY <1>1 DEF ControlOK
<1> QED BY <1>2, <1>3, TailHas, NothingHas DEF NoNewRefusal, Has

LEMMA NoRefusalStep ==
    ASSUME RoomForJobs, HandoffInv, NoRefusal, [HandoffNext]_handoffVars, HandoffInv'
    PROVE  NoRefusal'
<1>1. NoNewRefusal BY AdmitsQuietly, QueueIsQuiet
<1>2. \A m \in AuxMessages : Has(aux, m) => Harmless(m) BY DEF NoRefusal, Has, Harmless
<1>3. \A m \in AuxMessages : Has(aux', m) => Harmless(m) BY <1>1, <1>2 DEF NoNewRefusal
<1>4. aux' \in Seq(AuxMessages) BY DEF HandoffInv, TypeOK, ControlOK
<1> QED BY <1>3, <1>4 DEF NoRefusal, Has, Harmless

\* The same without a condition on the behaviour, where the lanes have room for
\* every Job (admit() counts what the lane of the Job holds).
THEOREM RoomKeepsTheAuthority == RoomForJobs => (HandoffSpec => ImplementsTurnAuthority)
<1> SUFFICES ASSUME RoomForJobs PROVE HandoffSpec => ImplementsTurnAuthority OBVIOUS
<1>1. HandoffInit => NoRefusal BY DEF HandoffInit, JournalInit, NoRefusal
<1>2. HandoffInv /\ NoRefusal /\ [HandoffNext]_handoffVars /\ HandoffInv' => NoRefusal'
      BY NoRefusalStep
<1>3. HandoffSpec => []NoRefusal BY <1>1, <1>2, HandoffInvariant, PTL DEF HandoffSpec
<1> QED BY <1>3, HandoffKeepsTheAuthority, PTL
-----------------------------------------------------------------------------
(* Nothing is skipped.                                                      *)
(*                                                                          *)
(* What is stored under a number stays under it until an event replaces it  *)
(* or the outcome prunes it, so "seen by the controller" is about numbers:  *)
(* those the cursor passed, those on the wire, and those above `sent`.  The *)
(* cursor, the write in flight and `sent` are three borders in the numbers  *)
(* of one receipt; the invariant says that nothing stored lies between two  *)
(* of them without being on the wire, and that the wire keeps the order.    *)

Stored(r) == {r.events[k].seq : k \in DOMAIN r.events} \cup {r.terminalSeq}
Holds(w, id, s) == \E h \in DOMAIN w : w[h].id = id /\ w[h].seq = s
InOrder(r, c, w, id) ==
    \A i \in DOMAIN w : w[i].id = id =>
        \A s \in Stored(r) : c < s /\ s < w[i].seq => \E h \in DOMAIN w : h < i /\ w[h].id = id /\ w[h].seq = s
Written(r, c, n, w, id) == \A s \in Stored(r) : c < s /\ s <= n => Holds(w, id, s)

\* A receipt numbers what it stores; a muted one has MaxSafe as `sent`.
Sound(r) ==
    /\ r.sequence \in Nat /\ r.sent \in Nat /\ (r.sequence = 0 \/ r.sequence < MaxSafe)
    /\ Stored(r) \subseteq 0 .. r.sequence
    /\ r.sent <= r.sequence \/ r.sent = MaxSafe
    /\ r.terminal = None => r.terminalSeq = 0

\* Nothing was written under a number above n.
Within(n, write, w, id) ==
    /\ write.id = id => write.seq <= n
    /\ \A i \in DOMAIN w : w[i].id = id => w[i].seq <= n
After(out, id, n) == \A c \in Commands : Has(out, c) /\ c.id = id => c.after <= n

Flows(r, c, write, w, id) ==
    /\ InOrder(r, c, w, id)
    /\ write.id = id => Written(r, c, write.seq, w, id)
    /\ r.sent <= r.sequence => Written(r, c, r.sent, w, id)

Bounded(id) ==
    /\ Sound(receipts[id])
    /\ Within(receipts[id].sequence, writing, wire, id)
    /\ After(toOwner, id, receipts[id].sequence)
    /\ cursor[id] <= receipts[id].sequence
Flowing(id) ==
    /\ Flows(receipts[id], cursor[id], writing, wire, id)
    /\ After(toOwner, id, cursor[id])
    /\ receipts[id].sent > receipts[id].sequence /\ peer = "ready" => Asked(id)

\* An id that may still be admitted was never numbered.
Unnumbered(id) == cursor[id] = 0 /\ Within(0, writing, wire, id) /\ After(toOwner, id, 0)
Unwanted(id) == receipts[id].abandoned \/ receipts[id].acknowledged

StreamInv ==
    /\ \A id \in Known : Bounded(id)
    /\ \A id \in Known : peer # "down" /\ Relevant(id) => Flowing(id)
    /\ \A id \in Ids : id \notin Known => Gone(id) \/ (~alive /\ Started(id)) \/ Unnumbered(id)
    /\ \A id \in Known : Unwanted(id) => Closed(id)
    /\ controller \in {None, Controller} \/ \A r \in Queries : ~Has(pending, r)

\* The least number above `sent`.
Leads(r, n) == n \in Stored(r) /\ r.sent < n /\ \A s \in Stored(r) : r.sent < s => n <= s

\* A message behind the others.
LEMMA Behind ==
    ASSUME NEW w \in Seq(WireMessages), NEW m \in WireMessages
    PROVE  /\ Append(w, m) \in Seq(WireMessages)
           /\ \A i \in DOMAIN w : i \in DOMAIN Append(w, m) /\ Append(w, m)[i] = w[i] /\ i < Len(w) + 1
           /\ \A i \in DOMAIN Append(w, m) : (i \in DOMAIN w /\ Append(w, m)[i] = w[i])
                                             \/ (i = Len(w) + 1 /\ Append(w, m)[i] = m)
           /\ Len(w) + 1 \in DOMAIN Append(w, m) /\ Append(w, m)[Len(w) + 1] = m
<1>1. Append(w, m) \in Seq(WireMessages) OBVIOUS
<1>2. /\ Len(w) \in Nat /\ DOMAIN w = 1 .. Len(w) /\ DOMAIN Append(w, m) = 1 .. Len(w) + 1
      /\ Append(w, m)[Len(w) + 1] = m
      /\ \A i \in 1 .. Len(w) : Append(w, m)[i] = w[i]
      OBVIOUS
<1> QED BY <1>1, <1>2

LEMMA AppendFlows ==
    ASSUME NEW w \in Seq(WireMessages), NEW m \in WireMessages, NEW id, NEW r, Sound(r), NEW c \in Nat,
           NEW write, NEW next, next.id = m.id, next.seq = m.seq,
           m.id = id => m.seq = 0 \/ Leads(r, m.seq), Flows(r, c, write, w, id)
    PROVE  Flows(r, c, next, Append(w, m), id)
<1> DEFINE v == Append(w, m)
<1>1. /\ \A i \in DOMAIN w : i \in DOMAIN v /\ v[i] = w[i] /\ i < Len(w) + 1
      /\ \A i \in DOMAIN v : (i \in DOMAIN w /\ v[i] = w[i]) \/ (i = Len(w) + 1 /\ v[i] = m)
      /\ Len(w) + 1 \in DOMAIN v /\ v[Len(w) + 1] = m
      BY Behind
<1> HIDE DEF v
<1>2. \A s : Holds(w, id, s) => Holds(v, id, s) BY <1>1 DEF Holds
<1>3. Stored(r) \subseteq Nat BY DEF Sound
<1>4. m.id = id => \A s \in Stored(r) : c < s /\ s < m.seq => Holds(w, id, s)
  <2> SUFFICES ASSUME m.id = id, NEW s \in Stored(r), c < s, s < m.seq PROVE Holds(w, id, s) OBVIOUS
  <2>1. m.seq # 0 BY <1>3
  <2>2. Leads(r, m.seq) BY <2>1
  <2>3. r.sent < m.seq /\ m.seq <= r.sequence /\ r.sent \in Nat /\ r.sequence \in Nat /\ m.seq \in Nat
        BY <2>2 DEF Leads, Sound
  <2>4. Written(r, c, r.sent, w, id) BY <2>3 DEF Flows
  <2>5. s <= r.sent BY <1>3, <2>2, <2>3 DEF Leads
  <2> QED BY <2>4, <2>5 DEF Written
<1>5. InOrder(r, c, v, id)
  <2> SUFFICES ASSUME NEW i \in DOMAIN v, v[i].id = id, NEW s \in Stored(r), c < s, s < v[i].seq
               PROVE  \E h \in DOMAIN v : h < i /\ v[h].id = id /\ v[h].seq = s
      BY DEF InOrder
  <2>1. CASE i \in DOMAIN w /\ v[i] = w[i]
    <3>1. PICK h \in DOMAIN w : h < i /\ w[h].id = id /\ w[h].seq = s BY <2>1 DEF Flows, InOrder
    <3> QED BY <1>1, <3>1
  <2>2. CASE i = Len(w) + 1 /\ v[i] = m
    <3>1. PICK h \in DOMAIN w : w[h].id = id /\ w[h].seq = s BY <1>4, <2>2 DEF Holds
    <3> QED BY <1>1, <2>2, <3>1
  <2> QED BY <1>1, <2>1, <2>2
<1>6. next.id = id => Written(r, c, next.seq, v, id)
  <2> SUFFICES ASSUME m.id = id, NEW s \in Stored(r), c < s, s <= m.seq PROVE Holds(v, id, s) BY DEF Written
  <2>1. CASE s = m.seq BY <1>1, <2>1 DEF Holds
  <2>2. CASE s # m.seq
    <3>1. m.seq \in Nat BY DEF WireMessages, Numbers
    <3>2. s < m.seq BY <1>3, <2>2, <3>1
    <3> QED BY <1>2, <1>4, <3>2
  <2> QED BY <2>1, <2>2
<1>7. r.sent <= r.sequence => Written(r, c, r.sent, v, id) BY <1>2 DEF Flows, Written
<1> QED BY <1>5, <1>6, <1>7 DEF Flows, v
AllSound == \A id \in Known : Sound(receipts[id])
LeadsItsReceipt(m) == m.seq = 0 \/ (m.id \in Known /\ Leads(receipts[m.id], m.seq))

\* pump() writes an unsequenced message, or the least stored number not sent.
LEMMA NextLeads ==
    ReceiptsOK /\ OrderOK /\ ControlOK /\ HasNext /\ AllSound
    => \A m : m = NextMessage => LeadsItsReceipt(m)
<1> SUFFICES ASSUME ReceiptsOK, OrderOK, ControlOK, HasNext, AllSound,
                    NEW m, m = NextMessage
             PROVE  m.seq = 0 \/ (m.id \in Known /\ Leads(receipts[m.id], m.seq))
    BY DEF LeadsItsReceipt
<1>1. CASE AuxTurn
  <2>1. aux # <<>> /\ m = Head(aux) BY <1>1 DEF HasNext, AuxTurn, NextMessage
  <2>2. m \in AuxMessages BY <2>1, TailHas DEF ControlOK
  <2> QED BY <2>2 DEF AuxMessages
<1>2. CASE ~AuxTurn
  <2>1. Ready # {} /\ m = NextReceipt BY <1>2 DEF AuxTurn, NextMessage
  <2> DEFINE id == FirstReady
             r == receipts[id]
             U == Unsent(id)
  <2>2. id \in Known /\ NextReceipt \in U BY <2>1, NextReceiptOK
  <2>3. \A n \in U : n.id = id /\ n.seq \in Nat BY <2>2, UnsentOK DEF Numbers
  <2>4. m \in U /\ \A n \in U : m.seq <= n.seq
    <3> DEFINE T == {n.seq : n \in U}
    <3>1. T \subseteq Nat /\ T # {} BY <2>2, <2>3
    <3>2. PICK t \in T : \A x \in T : t <= x
      <4> HIDE DEF T
      <4> QED BY <3>1, Least
    <3>3. \E n \in U : \A x \in U : n.seq <= x.seq BY <3>2
    <3>4. NextReceipt = CHOOSE n \in U : \A x \in U : n.seq <= x.seq BY DEF NextReceipt
    <3> HIDE DEF U
    <3> QED BY <2>1, <3>3, <3>4
  <2>5. \A n \in U : n.seq \in Stored(r) /\ r.sent < n.seq
    <3>1. r.sent \in Nat /\ Stored(r) \subseteq Nat BY <2>2 DEF AllSound, Sound
    <3>2. U = {Message("event", id, k, r.events[k].seq, r.events[k].pending, None) :
                  k \in {k \in DOMAIN r.events : r.events[k].seq > r.sent}}
              \cup (IF Terminal(id) /\ r.terminalSeq > r.sent
                    THEN {Message("response", id, None, r.terminalSeq, {}, r.terminal)} ELSE {})
          BY DEF Unsent
    <3> HIDE DEF U, r, id
    <3> QED BY <3>1, <3>2 DEF Message, Stored
  <2>6. \A s \in Stored(r) : r.sent < s => \E n \in U : n.seq = s
    <3>1. r.terminal = None => r.terminalSeq = 0 BY <2>2 DEF AllSound, Sound
    <3>2. r.sent \in Nat BY <2>2 DEF AllSound, Sound
    <3>3. U = {Message("event", id, k, r.events[k].seq, r.events[k].pending, None) :
                  k \in {k \in DOMAIN r.events : r.events[k].seq > r.sent}}
              \cup (IF Terminal(id) /\ r.terminalSeq > r.sent
                    THEN {Message("response", id, None, r.terminalSeq, {}, r.terminal)} ELSE {})
          BY DEF Unsent
    <3>4. Terminal(id) <=> r.terminal # None BY DEF Terminal
    <3> HIDE DEF U, r, id
    <3> SUFFICES ASSUME NEW s \in Stored(r), r.sent < s PROVE \E n \in U : n.seq = s OBVIOUS
    <3>5. CASE \E k \in DOMAIN r.events : s = r.events[k].seq
      <4>1. PICK k \in DOMAIN r.events : s = r.events[k].seq BY <3>5
      <4>2. Message("event", id, k, r.events[k].seq, r.events[k].pending, None) \in U BY <3>3, <4>1
      <4> QED BY <4>1, <4>2 DEF Message
    <3>6. CASE s = r.terminalSeq
      <4>1. s # 0 BY <3>2
      <4>2. Message("response", id, None, r.terminalSeq, {}, r.terminal) \in U BY <3>1, <3>3, <3>4, <3>6, <4>1
      <4> QED BY <3>6, <4>2 DEF Message
    <3> QED BY <3>5, <3>6 DEF Stored
  <2>7. Leads(r, m.seq)
    <3> HIDE DEF U, r
    <3>1. ASSUME NEW s \in Stored(r), r.sent < s PROVE m.seq <= s
      <4>1. PICK n \in U : n.seq = s BY <2>6, <3>1
      <4> QED BY <2>4, <4>1
    <3> QED BY <2>4, <2>5, <3>1 DEF Leads
  <2> QED BY <2>2, <2>3, <2>4, <2>7
<1> QED BY <1>1, <1>2

\* The same after a step: what pump() leaves on the link.
LEMMA PumpFlows ==
    ASSUME NEW flight, NEW w \in Seq(WireMessages),
           Pump(flight, w) \/ (writing' = flight /\ wire' = w),
           TypeOK', \A m \in WireMessages : Has(aux', m) => MessageOK(m)',
           \A id \in DOMAIN receipts' : Sound(receipts'[id]),
           NEW id \in Ids
    PROVE  /\ id \in DOMAIN receipts' =>
                 /\ Within(receipts'[id].sequence, flight, w, id)
                        => Within(receipts'[id].sequence, writing', wire', id)
                 /\ \A c \in Nat : Flows(receipts'[id], c, flight, w, id)
                        => Flows(receipts'[id], c, writing', wire', id)
           /\ id \notin DOMAIN receipts' => (Within(0, flight, w, id) => Within(0, writing', wire', id))
<1>1. CASE writing' = flight /\ wire' = w BY <1>1
<1>2. CASE /\ HasNext' /\ wire' = Append(w, NextMessage')
           /\ writing'.id = NextMessage'.id /\ writing'.seq = NextMessage'.seq
  <2>1. ReceiptsOK' /\ OrderOK' /\ ControlOK' BY DEF TypeOK
  <2>2. (ReceiptsOK /\ OrderOK /\ ControlOK /\ HasNext
           /\ (\A m \in WireMessages : Has(aux, m) => MessageOK(m))
         => NextMessage \in WireMessages /\ \A m : m = NextMessage => MessageOK(m))'
        BY NextIsOK, PTL
  <2>3. (ReceiptsOK /\ OrderOK /\ ControlOK /\ HasNext /\ AllSound
         => \A m : m = NextMessage => LeadsItsReceipt(m))'
        BY NextLeads, PTL
  <2>4. (\A m \in WireMessages : Has(aux, m) => MessageOK(m))' BY DEF Has
  <2>5. AllSound' BY DEF AllSound, Known
  <2>6. PICK m : m = NextMessage' OBVIOUS
  <2>7. m \in WireMessages BY <1>2, <2>1, <2>2, <2>4, <2>6 DEF WireMessages
  <2>8. m.seq = 0 \/ (m.id \in DOMAIN receipts' /\ Leads(receipts'[m.id], m.seq))
        BY <1>2, <2>1, <2>3, <2>5, <2>6 DEF LeadsItsReceipt, Known
  <2>9. wire' = Append(w, m) /\ writing'.id = m.id /\ writing'.seq = m.seq BY <1>2, <2>6
  <2>10. ASSUME NEW n \in Nat, Within(n, flight, w, id), m.id = id => m.seq <= n
         PROVE  Within(n, writing', wire', id)
    <3>1. \A i \in DOMAIN wire' : (i \in DOMAIN w /\ wire'[i] = w[i]) \/ wire'[i] = m BY <2>7, <2>9, Behind
    <3> QED BY <2>9, <2>10, <3>1 DEF Within
  <2>11. CASE id \in DOMAIN receipts'
    <3>1. Sound(receipts'[id]) BY <2>11
    <3>2. m.id = id => m.seq = 0 \/ Leads(receipts'[id], m.seq) BY <2>8
    <3>3. receipts'[id].sequence \in Nat /\ (m.id = id => m.seq <= receipts'[id].sequence)
          BY <3>1, <3>2 DEF Sound, Leads
    <3>4. \A c \in Nat : Flows(receipts'[id], c, flight, w, id) => Flows(receipts'[id], c, writing', wire', id)
      <4> SUFFICES ASSUME NEW c \in Nat, Flows(receipts'[id], c, flight, w, id)
                   PROVE  Flows(receipts'[id], c, writing', Append(w, m), id)
          BY <2>9
      <4> QED BY <2>7, <2>9, <3>1, <3>2, AppendFlows
    <3> QED BY <2>10, <2>11, <3>3, <3>4
  <2>12. CASE id \notin DOMAIN receipts'
    <3>1. m.id = id => m.seq <= 0 BY <2>8, <2>12
    <3> QED BY <2>10, <2>12, <3>1
  <2> QED BY <2>11, <2>12
<1> QED BY <1>1, <1>2 DEF Pump

-----------------------------------------------------------------------------
(* The owner's steps: a receipt is new, grows, or has `sent` moved, and     *)
(* pump() writes what comes next.                                           *)

\* What pump() finds of one receipt.
Prepared(id, flight) ==
    /\ Sound(receipts'[id])
    /\ Within(receipts'[id].sequence, flight, wire, id)
    /\ After(toOwner, id, receipts'[id].sequence)
    /\ cursor[id] <= receipts'[id].sequence
    /\ peer # "down" /\ Relevant(id) =>
          /\ Flows(receipts'[id], cursor[id], flight, wire, id)
          /\ After(toOwner, id, cursor[id])
          /\ receipts'[id].sent > receipts'[id].sequence /\ peer = "ready" => Asked(id)'

\* The write in flight, or none.
SameWrite(flight) == \A id \in Ids : flight.id = id => writing.id = id /\ flight.seq = writing.seq

LEMMA SameWrites ==
    ASSUME TypeOK, NEW m, NEW id
    PROVE  SameWrite(writing) /\ SameWrite(NoWrite) /\ SameWrite(Superseded(m)) /\ SameWrite(Detached(id))
<1>1. writing \in Writes \cup {NoWrite} BY DEF TypeOK, WritingOK
<1>2. SameWrite(NoWrite) BY JournalAssumption DEF SameWrite, NoWrite
<1>3. ASSUME NEW f, f = writing \/ f = [writing EXCEPT !.current = FALSE] PROVE SameWrite(f)
      BY <1>1, <1>3 DEF SameWrite, Writes, NoWrite
<1> QED BY <1>2, <1>3 DEF Superseded, Detached

LEMMA OwnerStream ==
    ASSUME HandoffInv, StreamInv, HandoffInv', Keeps, OwnerFrame, alive,
           NEW flight, SameWrite(flight), Pump(flight, wire) \/ (writing' = flight /\ wire' = wire),
           \A id \in DOMAIN receipts' : Prepared(id, flight),
           \A id \in DOMAIN receipts' : Unwanted(id)' => Closed(id),
           \A id \in Known : id \notin DOMAIN receipts' => Closed(id)
    PROVE  StreamInv'
<1>1. TypeOK' /\ wire \in Seq(WireMessages) /\ (\A m \in WireMessages : Has(aux', m) => MessageOK(m)')
      /\ CommandsOK /\ cursor \in [Ids -> Numbers]
      BY DEF HandoffInv, MessagesOK, PeersOK, Has
<1>2. \A id \in DOMAIN receipts' : Sound(receipts'[id]) /\ id \in Ids
      BY <1>1 DEF Prepared, TypeOK, ReceiptsOK, Known
<1>3. UNCHANGED <<row, query, pending, released, recovering, cursor, peer, alive, controller, faults>>
      BY DEF OwnerFrame, durable, proxy
<1>4. \A id : Relevant(id)' = Relevant(id) BY <1>3 DEF Relevant, Has
<1>5. \A id \in Ids : Started(id)' = Started(id) BY <1>3 DEF Started
<1>6. \A id, n : After(toOwner, id, n) => After(toOwner', id, n)
  <2>1. \A c \in Commands : Has(toOwner', c) => Has(toOwner, c) BY <1>1, OwnerCommands
  <2> QED BY <2>1 DEF After
<1>7. ASSUME NEW id \in Known' PROVE Bounded(id)' /\ (peer' # "down" /\ Relevant(id)' => Flowing(id)')
  <2> DEFINE q == receipts'[id]
  <2>1. id \in DOMAIN receipts' /\ id \in Ids /\ Prepared(id, flight) /\ cursor[id] \in Nat
        BY <1>1, <1>2, <1>7 DEF Known, Numbers
  <2>2. /\ Within(q.sequence, flight, wire, id) => Within(q.sequence, writing', wire', id)
        /\ Flows(q, cursor[id], flight, wire, id) => Flows(q, cursor[id], writing', wire', id)
        BY <1>1, <1>2, <2>1, PumpFlows
  <2> HIDE DEF q
  <2>3. Bounded(id)' BY <1>3, <1>6, <2>1, <2>2 DEF Prepared, Bounded, q
  <2>4. ASSUME peer' # "down", Relevant(id)' PROVE Flowing(id)'
    <3>1. peer # "down" /\ Relevant(id) BY <1>3, <1>4, <2>4
    <3> QED BY <1>3, <1>6, <2>1, <2>2, <3>1 DEF Prepared, Flowing, q
  <2> QED BY <2>3, <2>4
<1>8. \A id \in Ids : Closed(id) => Closed(id)' BY GoneStays
<1>9. ASSUME NEW id \in Ids, id \notin Known' PROVE Gone(id)' \/ Unnumbered(id)'
  <2>1. id \notin DOMAIN receipts' BY <1>9 DEF Known
  <2>2. CASE Closed(id) BY <1>8, <1>9, <2>2 DEF Gone
  <2>3. CASE Unnumbered(id)
    <3>1. Within(0, flight, wire, id) BY <2>3 DEF Unnumbered, Within, SameWrite
    <3>2. Within(0, writing', wire', id) BY <1>1, <1>2, <2>1, <3>1, PumpFlows
    <3> QED BY <1>3, <1>6, <2>3, <3>2 DEF Unnumbered
  <2> QED BY <2>1, <2>2, <2>3 DEF StreamInv, Gone
<1>10. \A id \in Known' : Unwanted(id)' => Closed(id)' BY <1>2, <1>8 DEF Known
<1>11. Controller' = Controller BY <1>3 DEF Controller
<1>12. controller' \in {None, Controller'} \/ \A r \in Queries : ~Has(pending', r)
       BY <1>3, <1>11 DEF StreamInv, Has
<1> QED BY <1>7, <1>9, <1>10, <1>12 DEF StreamInv

\* What the owner has read is no longer asked, the rest is.
LEMMA TailAsks ==
    ASSUME CommandsOK, toOwner # <<>>, toOwner' = Tail(toOwner), UNCHANGED <<replaying, replayed>>,
           NEW id, Asked(id), Head(toOwner).kind = "acknowledge" \/ Head(toOwner).id # id
    PROVE  Asked(id)'
<1>1. CASE replaying /\ id \notin replayed BY <1>1 DEF Asked
<1>2. CASE \E i \in DOMAIN toOwner : toOwner[i].kind \in {"request", "recover"} /\ toOwner[i].id = id
  <2>1. PICK i \in DOMAIN toOwner : toOwner[i].kind \in {"request", "recover"} /\ toOwner[i].id = id BY <1>2
  <2>2. toOwner \in Seq(Commands) BY DEF CommandsOK
  <2>3. i # 1 BY <2>1, <2>2
  <2>4. i - 1 \in DOMAIN Tail(toOwner) /\ Tail(toOwner)[i - 1] = toOwner[i] BY <2>1, <2>2, <2>3
  <2> QED BY <2>1, <2>4 DEF Asked
<1> QED BY <1>1, <1>2 DEF Asked

LEMMA SameAsks ==
    ASSUME UNCHANGED <<toOwner, replaying, replayed>>
    PROVE  \A id : Asked(id)' = Asked(id)
BY DEF Asked

LEMMA NumbersAreNaturals ==
    ASSUME HandoffInv
    PROVE  /\ wire \in Seq(WireMessages) /\ \A i \in DOMAIN wire : wire[i].seq \in Nat
           /\ writing.seq \in Nat
           /\ \A id \in Ids : cursor[id] \in Nat
           /\ \A c \in Commands : c.after \in Nat
           /\ Known \subseteq Ids
<1>1. wire \in Seq(WireMessages) /\ \A i \in DOMAIN wire : wire[i].seq \in Nat
  <2>1. wire \in Seq(WireMessages) BY DEF HandoffInv, MessagesOK
  <2>2. \A i \in DOMAIN wire : wire[i] \in WireMessages BY <2>1
  <2> QED BY <2>1, <2>2 DEF WireMessages, Numbers
<1>2. writing.seq \in Nat
  <2>1. writing \in Writes \cup {NoWrite} BY DEF HandoffInv, TypeOK, WritingOK
  <2> QED BY <2>1 DEF Writes, NoWrite, Numbers
<1>3. \A id \in Ids : cursor[id] \in Nat BY DEF HandoffInv, PeersOK, Numbers
<1>4. \A c \in Commands : c.after \in Nat BY DEF Commands, Numbers
<1> QED BY <1>1, <1>2, <1>3, <1>4 DEF HandoffInv, TypeOK, ReceiptsOK

\* A receipt that stores something more, under new numbers.
LEMMA GrownPrepared ==
    ASSUME HandoffInv, StreamInv, NEW id \in Known, NEW flight, SameWrite(flight),
           Sound(receipts'[id]), receipts'[id].sent = receipts[id].sent,
           receipts[id].sequence <= receipts'[id].sequence,
           receipts'[id].sequence = receipts[id].sequence \/ receipts'[id].sequence < MaxSafe,
           \A s \in Stored(receipts'[id]) : s \in Stored(receipts[id]) \/ s > receipts[id].sequence,
           Asked(id) => Asked(id)'
    PROVE  Prepared(id, flight)
<1> DEFINE r == receipts[id]
           q == receipts'[id]
           c == cursor[id]
<1>1. /\ Sound(r) /\ Within(r.sequence, writing, wire, id) /\ After(toOwner, id, r.sequence) /\ c <= r.sequence
      BY DEF StreamInv, Bounded
<1>2. peer # "down" /\ Relevant(id) =>
         /\ Flows(r, c, writing, wire, id) /\ After(toOwner, id, c)
         /\ r.sent > r.sequence /\ peer = "ready" => Asked(id)
      BY DEF StreamInv, Flowing
<1>3. Sound(q) /\ q.sent = r.sent /\ r.sequence <= q.sequence
      /\ (q.sequence = r.sequence \/ q.sequence < MaxSafe)
      /\ \A s \in Stored(q) : s \in Stored(r) \/ s > r.sequence
      OBVIOUS
<1>4. /\ c \in Nat /\ id \in Ids /\ writing.seq \in Nat /\ \A i \in DOMAIN wire : wire[i].seq \in Nat
      /\ \A x \in Commands : x.after \in Nat
      BY NumbersAreNaturals
<1>5. flight.id = id => writing.id = id /\ flight.seq = writing.seq BY <1>4 DEF SameWrite
<1> HIDE DEF q, r, c
<1>6. r.sequence \in Nat /\ q.sequence \in Nat /\ r.sent \in Nat /\ Stored(r) \subseteq Nat /\ Stored(q) \subseteq Nat
      BY <1>1, <1>3 DEF Sound
<1>7. Within(q.sequence, flight, wire, id) BY <1>1, <1>3, <1>4, <1>5, <1>6 DEF Within
<1>8. After(toOwner, id, q.sequence) BY <1>1, <1>3, <1>4, <1>6 DEF After
<1>9. c <= q.sequence BY <1>1, <1>3, <1>4, <1>6
<1>10. ASSUME peer # "down", Relevant(id) PROVE Flows(q, c, flight, wire, id)
  <2>1. Flows(r, c, writing, wire, id) BY <1>2, <1>10
  <2>2. InOrder(q, c, wire, id)
    <3>1. ASSUME NEW i \in DOMAIN wire, wire[i].id = id, NEW s \in Stored(q), c < s, s < wire[i].seq
          PROVE  \E h \in DOMAIN wire : h < i /\ wire[h].id = id /\ wire[h].seq = s
      <4>1. wire[i].seq <= r.sequence BY <1>1, <3>1 DEF Within
      <4>2. s \in Stored(r) BY <1>3, <1>4, <1>6, <3>1, <4>1
      <4> QED BY <2>1, <3>1, <4>2 DEF Flows, InOrder
    <3> QED BY <3>1 DEF InOrder
  <2>3. ASSUME NEW n \in Nat, n <= r.sequence, Written(r, c, n, wire, id) PROVE Written(q, c, n, wire, id)
        BY <1>3, <1>6, <2>3 DEF Written
  <2>4. flight.id = id => Written(q, c, flight.seq, wire, id)
        BY <1>1, <1>4, <1>5, <2>1, <2>3 DEF Flows, Within
  <2>5. q.sent <= q.sequence => Written(q, c, q.sent, wire, id)
    <3>1. q.sent <= q.sequence => r.sent <= r.sequence BY <1>1, <1>3, <1>6 DEF Sound
    <3> QED BY <1>3, <1>6, <2>1, <2>3, <3>1 DEF Flows
  <2> QED BY <2>2, <2>4, <2>5 DEF Flows
<1>11. q.sent > q.sequence => r.sent > r.sequence BY <1>3, <1>6
<1> QED BY <1>2, <1>3, <1>7, <1>8, <1>9, <1>10, <1>11 DEF Prepared, q, c

\* A receipt whose cursor moves to a number that was asked for, or written.
LEMMA SentPrepared ==
    ASSUME HandoffInv, StreamInv, NEW id \in Known, NEW flight, SameWrite(flight), NEW n \in Nat,
           receipts'[id] = [receipts[id] EXCEPT !.sent = n], n <= receipts[id].sequence,
           peer # "down" /\ Relevant(id) => Written(receipts[id], cursor[id], n, wire, id)
    PROVE  Prepared(id, flight)
<1> DEFINE r == receipts[id]
           q == receipts'[id]
           c == cursor[id]
<1>1. /\ Sound(r) /\ Within(r.sequence, writing, wire, id) /\ After(toOwner, id, r.sequence) /\ c <= r.sequence
      BY DEF StreamInv, Bounded
<1>2. peer # "down" /\ Relevant(id) => Flows(r, c, writing, wire, id) /\ After(toOwner, id, c)
      BY DEF StreamInv, Flowing
<1>3. id \in Ids BY NumbersAreNaturals
<1>4. flight.id = id => writing.id = id /\ flight.seq = writing.seq BY <1>3 DEF SameWrite
<1>5. /\ q.sent = n /\ q.sequence = r.sequence /\ q.events = r.events /\ q.terminalSeq = r.terminalSeq
      /\ q.terminal = r.terminal
  <2>1. IsReceipt(r) BY DEF HandoffInv, TypeOK, ReceiptsOK
  <2>2. q = [r EXCEPT !.sent = n] OBVIOUS
  <2> HIDE DEF r, q
  <2> QED BY <2>1, <2>2 DEF IsReceipt
<1>6. n <= r.sequence /\ (peer # "down" /\ Relevant(id) => Written(r, c, n, wire, id)) OBVIOUS
<1> HIDE DEF q, r, c
<1>7. Stored(q) = Stored(r) BY <1>5 DEF Stored
<1>8. Sound(q) BY <1>1, <1>5, <1>6, <1>7 DEF Sound
<1>9. Within(q.sequence, flight, wire, id) BY <1>1, <1>4, <1>5 DEF Within
<1>10. peer # "down" /\ Relevant(id) => Flows(q, c, flight, wire, id)
       BY <1>2, <1>4, <1>5, <1>6, <1>7 DEF Flows, InOrder, Written
<1>11. ~(q.sent > q.sequence) BY <1>1, <1>5, <1>6 DEF Sound
<1> QED BY <1>1, <1>2, <1>5, <1>8, <1>9, <1>10, <1>11 DEF Prepared, q, c, r

LEMMA NewPrepared ==
    ASSUME HandoffInv, StreamInv, NEW id \in Ids, id \notin Known, alive, Asks(id), NEW print,
           receipts'[id] = NewReceipt(id, print)
    PROVE  Prepared(id, writing)
<1>1. ~Gone(id) BY DEF Gone, Closed
<1>2. Unnumbered(id) BY <1>1 DEF StreamInv
<1> DEFINE q == receipts'[id]
<1>3. q.sequence = 0 /\ q.sent = 0 /\ Stored(q) = {0} /\ q.terminalSeq = 0 BY DEF NewReceipt, Stored, Empty
<1> HIDE DEF q
<1>4. Sound(q) BY <1>3 DEF Sound
<1>5. Flows(q, 0, writing, wire, id) BY <1>3 DEF Flows, InOrder, Written
<1> QED BY <1>2, <1>3, <1>4, <1>5 DEF Unnumbered, Prepared, q

\* A receipt that a step leaves alone.
LEMMA UntouchedPrepared ==
    ASSUME HandoffInv, StreamInv, NEW id \in Known, NEW flight, SameWrite(flight),
           receipts'[id] = receipts[id], Asked(id) => Asked(id)'
    PROVE  Prepared(id, flight)
<1>1. Sound(receipts[id]) BY DEF StreamInv, Bounded
<1>2. receipts[id].sequence \in Nat /\ Stored(receipts[id]) \subseteq Nat BY <1>1 DEF Sound
<1> QED BY <1>1, <1>2, GrownPrepared

LEMMA OwnerAdmitsStream ==
    ASSUME HandoffInv, StreamInv, HandoffInv', Keeps, OwnerAdmits
    PROVE  StreamInv'
<1>1. TypeOK /\ CommandsOK /\ EntriesOK /\ alive /\ toOwner # <<>> /\ Head(toOwner).kind = "request"
      BY DEF HandoffInv, OwnerAdmits, OwnerReads
<1> PICK c \in Commands : c = Head(toOwner) BY <1>1, HeadCommand
<1> DEFINE id == c.id
           after == c.after
<1>2. id \in Ids /\ after \in Nat /\ Started(id) /\ Asks(id) /\ Has(toOwner, c)
      BY <1>1, HeadCommand DEF CommandOK, Asks, Numbers
<1>3. Admit(id, after, Fingerprint) /\ toOwner' = Tail(toOwner) /\ UNCHANGED <<replaying, replayed>>
      BY DEF OwnerAdmits, OwnerRead
<1>4. id \in Known => after <= receipts[id].sequence /\ (peer # "down" /\ Relevant(id) => after <= cursor[id])
      BY <1>2 DEF StreamInv, Bounded, Flowing, After
<1>5. \A i \in Known : i # id => (Asked(i) => Asked(i)') BY <1>1, <1>3, TailAsks
<1> HIDE DEF id, after
<1>6. OwnerFrame
  <2>1. UNCHANGED <<controller, linked>>
        BY <1>3 DEF Admit, AdmitNew, AdmitExisting, AdmitConflict, AdmitTombstoned, AdmitOverCapacity, ReplyError
  <2> QED BY <1>1, <2>1 DEF OwnerAdmits, OwnerRead, OwnerFrame
<1>7. CASE AdmitNew(id, Fingerprint)
  <2>1. /\ DOMAIN receipts' = Known \cup {id} /\ id \notin Known /\ UNCHANGED <<writing, wire>>
        /\ receipts'[id] = NewReceipt(id, Fingerprint)
        /\ \A i \in Known : receipts'[i] = receipts[i]
        BY <1>7 DEF AdmitNew, AdmitsNew
  <2>2. \A i \in Known : Prepared(i, writing) BY <1>1, <1>5, <2>1, SameWrites, UntouchedPrepared
  <2>3. Prepared(id, writing) BY <1>1, <1>2, <2>1, NewPrepared
  <2>4. ~Unwanted(id)' BY <2>1 DEF Unwanted, NewReceipt
  <2>5. \A i \in DOMAIN receipts' : Unwanted(i)' => Closed(i) BY <2>1, <2>4 DEF StreamInv, Unwanted
  <2> QED BY <1>1, <1>6, <2>1, <2>2, <2>3, <2>5, SameWrites, OwnerStream
<1>8. CASE AdmitExisting(id, after, Fingerprint)
  <2>1. receipts' = [receipts EXCEPT ![id].sent = Rewound(@, after)] /\ id \in Known /\ Pump(writing, wire)
        BY <1>8 DEF AdmitExisting
  <2> DEFINE n == Rewound(receipts[id].sent, after)
  <2>2. Sound(receipts[id]) BY <2>1 DEF StreamInv, Bounded
  <2>3. n \in Nat /\ n <= after /\ n <= receipts[id].sequence /\ n <= receipts[id].sent
        BY <1>2, <1>4, <2>1, <2>2 DEF Rewound, Lower, Sound
  <2>4. receipts' = [receipts EXCEPT ![id].sent = n] BY <2>1
  <2> HIDE DEF n
  <2>5. /\ DOMAIN receipts' = Known
        /\ receipts'[id] = [receipts[id] EXCEPT !.sent = n]
        /\ \A i \in Known : i # id => receipts'[i] = receipts[i]
        BY <1>1, <2>1, <2>4 DEF TypeOK, ReceiptsOK, Known
  <2>6. peer # "down" /\ Relevant(id) => Written(receipts[id], cursor[id], n, wire, id)
    <3>1. Stored(receipts[id]) \subseteq Nat BY <2>2 DEF Sound
    <3>2. cursor[id] \in Nat BY <1>2, NumbersAreNaturals
    <3> QED BY <1>2, <1>4, <2>1, <2>3, <3>1, <3>2 DEF Written
  <2>7. Prepared(id, writing) BY <1>1, <2>1, <2>3, <2>5, <2>6, SameWrites, SentPrepared
  <2>8. \A i \in Known : i # id => Prepared(i, writing) BY <1>1, <1>5, <2>5, SameWrites, UntouchedPrepared
  <2>9. \A i \in DOMAIN receipts' : Unwanted(i)' => Closed(i)
    <3>1. IsReceipt(receipts[id]) BY <1>1, <2>1 DEF TypeOK, ReceiptsOK
    <3>2. Unwanted(id)' => Unwanted(id) BY <2>5, <3>1 DEF Unwanted, IsReceipt
    <3> QED BY <2>1, <2>5, <3>2 DEF StreamInv, Unwanted
  <2> QED BY <1>1, <1>6, <2>1, <2>5, <2>7, <2>8, <2>9, SameWrites, OwnerStream
<1>9. CASE AdmitConflict(id, Fingerprint) BY <1>1, <1>9 DEF AdmitConflict, EntriesOK
<1>10. CASE AdmitTombstoned(id) BY <1>1, <1>2, <1>10 DEF AdmitTombstoned, EntriesOK, Gone, Closed
<1>11. CASE AdmitOverCapacity(id)
  <2> DEFINE flight == Superseded(ErrorReply(id, "capacity"))
  <2>1. receipts' = receipts /\ Pump(flight, wire) /\ id \notin Known
        BY <1>11 DEF AdmitOverCapacity, ReplyError
  <2>2. SameWrite(flight) BY <1>1, SameWrites
  <2> HIDE DEF flight
  <2>3. \A i \in Known : Prepared(i, flight) BY <1>5, <2>1, <2>2, UntouchedPrepared
  <2>4. \A i \in Known : Unwanted(i)' => Closed(i) BY <2>1 DEF StreamInv, Unwanted
  <2> QED BY <1>1, <1>6, <2>1, <2>2, <2>3, <2>4, OwnerStream DEF Known
<1> QED BY <1>3, <1>7, <1>8, <1>9, <1>10, <1>11 DEF Admit

LEMMA OwnerRecoversStream ==
    ASSUME HandoffInv, StreamInv, HandoffInv', Keeps, OwnerRecovers
    PROVE  StreamInv'
<1>1. TypeOK /\ CommandsOK /\ alive /\ toOwner # <<>> BY DEF HandoffInv, OwnerRecovers, OwnerReads
<1> PICK c \in Commands : c = Head(toOwner) BY <1>1, HeadCommand
<1> DEFINE id == c.id
           after == c.after
<1>2. id \in Ids /\ after \in Nat /\ Has(toOwner, c) BY <1>1, HeadCommand DEF Numbers
<1>3. Recover(id, after) /\ toOwner' = Tail(toOwner) /\ UNCHANGED <<replaying, replayed>>
      BY DEF OwnerRecovers, OwnerRead
<1>4. id \in Known => after <= receipts[id].sequence /\ (peer # "down" /\ Relevant(id) => after <= cursor[id])
      BY <1>2 DEF StreamInv, Bounded, Flowing, After
<1>5. \A i \in Known : i # id => (Asked(i) => Asked(i)') BY <1>1, <1>3, TailAsks
<1> HIDE DEF id, after
<1>6. OwnerFrame
  <2>1. UNCHANGED <<controller, linked>> BY <1>3 DEF Recover, RecoverKnown, RecoverMissing, ReplyError
  <2> QED BY <1>1, <2>1 DEF OwnerRecovers, OwnerRead, OwnerFrame
<1>7. CASE RecoverKnown(id, after)
  <2>1. receipts' = [receipts EXCEPT ![id].sent = after] /\ id \in Known /\ Pump(writing, wire)
        BY <1>7 DEF RecoverKnown
  <2>2. /\ DOMAIN receipts' = Known
        /\ receipts'[id] = [receipts[id] EXCEPT !.sent = after]
        /\ \A i \in Known : i # id => receipts'[i] = receipts[i]
        BY <1>1, <2>1 DEF TypeOK, ReceiptsOK, Known
  <2>3. peer # "down" /\ Relevant(id) => Written(receipts[id], cursor[id], after, wire, id)
    <3>1. Stored(receipts[id]) \subseteq Nat BY <2>1 DEF StreamInv, Bounded, Sound
    <3>2. cursor[id] \in Nat BY <1>2, NumbersAreNaturals
    <3> QED BY <1>2, <1>4, <2>1, <3>1, <3>2 DEF Written
  <2>4. Prepared(id, writing) BY <1>1, <1>2, <1>4, <2>1, <2>2, <2>3, SameWrites, SentPrepared
  <2>5. \A i \in Known : i # id => Prepared(i, writing) BY <1>1, <1>5, <2>2, SameWrites, UntouchedPrepared
  <2>6. \A i \in DOMAIN receipts' : Unwanted(i)' => Closed(i)
    <3>1. IsReceipt(receipts[id]) BY <1>1, <2>1 DEF TypeOK, ReceiptsOK
    <3>2. Unwanted(id)' => Unwanted(id) BY <2>2, <3>1 DEF Unwanted, IsReceipt
    <3> QED BY <2>1, <2>2, <3>2 DEF StreamInv, Unwanted
  <2> QED BY <1>1, <1>6, <2>1, <2>2, <2>4, <2>5, <2>6, SameWrites, OwnerStream
<1>8. CASE RecoverMissing(id)
  <2> DEFINE flight == Superseded(ErrorReply(id, "worker-lost"))
  <2>1. receipts' = receipts /\ Pump(flight, wire) /\ id \notin Known
        BY <1>8 DEF RecoverMissing, ReplyError
  <2>2. SameWrite(flight) BY <1>1, SameWrites
  <2> HIDE DEF flight
  <2>3. \A i \in Known : Prepared(i, flight) BY <1>5, <2>1, <2>2, UntouchedPrepared
  <2>4. \A i \in Known : Unwanted(i)' => Closed(i) BY <2>1 DEF StreamInv, Unwanted
  <2> QED BY <1>1, <1>6, <2>1, <2>2, <2>3, <2>4, OwnerStream DEF Known
<1> QED BY <1>3, <1>7, <1>8 DEF Recover

LEMMA OwnerAcknowledgesStream ==
    ASSUME HandoffInv, StreamInv, HandoffInv', Keeps, OwnerAcknowledges
    PROVE  StreamInv'
<1>1. /\ TypeOK /\ CommandsOK /\ alive
      /\ toOwner # <<>> /\ Head(toOwner).kind = "acknowledge"
      BY DEF HandoffInv, OwnerAcknowledges, OwnerReads
<1> PICK c \in Commands : c = Head(toOwner) BY <1>1, HeadCommand
<1> DEFINE id == c.id
<1>2. id \in Ids /\ Acknowledgeable(id) BY <1>1, HeadCommand DEF CommandOK
<1>3. Acknowledge(id) /\ toOwner' = Tail(toOwner) /\ UNCHANGED <<replaying, replayed>>
      BY DEF OwnerAcknowledges, OwnerRead
<1>4. ~Asks(id) BY <1>1, TailLast DEF Asks, CommandsOK
<1>5. \A i \in Known : Asked(i) => Asked(i)' BY <1>1, <1>3, TailAsks
<1> HIDE DEF id
<1>6. Closed(id) BY <1>2, <1>4 DEF Acknowledgeable, Closed
<1>7. OwnerFrame BY <1>1, <1>3 DEF OwnerAcknowledges, OwnerRead, OwnerFrame, Acknowledge
<1>8. PICK flight : SameWrite(flight) /\ (Pump(flight, wire) \/ (writing' = flight /\ wire' = wire))
  <2> DEFINE w == IF id \in Known /\ Terminal(id) /\ writing.kind \in {"event", "response"}
                  THEN Detached(id) ELSE Superseded(AckReply(id))
  <2>1. SameWrite(w) BY <1>1, SameWrites
  <2>2. Pump(w, wire) \/ (writing' = w /\ wire' = wire) BY <1>3 DEF Acknowledge
  <2> HIDE DEF w
  <2> QED BY <2>1, <2>2
<1>9. /\ DOMAIN receipts' \subseteq Known
      /\ \A i \in Known : i \notin DOMAIN receipts' => i = id
      /\ \A i \in DOMAIN receipts' : i # id => receipts'[i] = receipts[i]
      /\ id \in DOMAIN receipts' => receipts'[id] = receipts[id] \/
                                    receipts'[id] = [receipts[id] EXCEPT !.acknowledged = TRUE]
  <2>1. ReceiptsOK BY <1>1 DEF TypeOK
  <2>2. CASE id \in Known /\ Forget(id) BY <2>2 DEF Forget, Known
  <2>3. CASE id \in Known /\ receipts' = [receipts EXCEPT ![id].acknowledged = TRUE]
        BY <2>1, <2>3 DEF ReceiptsOK, Known
  <2>4. CASE receipts' = receipts BY <2>4 DEF Known
  <2> QED BY <1>3, <2>2, <2>3, <2>4 DEF Acknowledge
<1>10. ASSUME NEW i \in DOMAIN receipts', i # id PROVE Prepared(i, flight)
       BY <1>5, <1>8, <1>9, <1>10, UntouchedPrepared
<1>11. ASSUME id \in DOMAIN receipts' PROVE Prepared(id, flight)
  <2> DEFINE r == receipts[id]
             q == receipts'[id]
  <2>1. IsReceipt(r) /\ id \in Known BY <1>1, <1>9, <1>11 DEF TypeOK, ReceiptsOK
  <2>2. q = r \/ q = [r EXCEPT !.acknowledged = TRUE] BY <1>9, <1>11
  <2>3. Sound(r) BY <2>1 DEF StreamInv, Bounded
  <2>4. /\ q.sent = r.sent /\ q.sequence = r.sequence /\ q.events = r.events
        /\ q.terminalSeq = r.terminalSeq /\ q.terminal = r.terminal
    <3> HIDE DEF q, r
    <3> QED BY <2>1, <2>2 DEF IsReceipt
  <2> HIDE DEF q, r
  <2>5. Stored(q) = Stored(r) BY <2>4 DEF Stored
  <2>6. Sound(q) /\ r.sequence <= q.sequence BY <2>3, <2>4, <2>5 DEF Sound
  <2> QED BY <1>5, <1>8, <2>1, <2>4, <2>5, <2>6, GrownPrepared DEF q, r
<1>12. \A i \in DOMAIN receipts' : Unwanted(i)' => Closed(i)
       BY <1>6, <1>9 DEF StreamInv, Unwanted
<1>13. \A i \in Known : i \notin DOMAIN receipts' => Closed(i) BY <1>6, <1>9
<1> QED BY <1>1, <1>7, <1>8, <1>10, <1>11, <1>12, <1>13, OwnerStream

\* What an event, kept or set, adds to the numbers of a receipt.
LEMMA StoredEvent ==
    ASSUME NEW r, NEW q, NEW n, NEW S, S \subseteq DOMAIN r.events,
           q.terminalSeq = r.terminalSeq,
           \/ q.events = Restricted(r.events, S)
           \/ \E k, e : q.events = SetEvent(Restricted(r.events, S), k, e) /\ e.seq = n
    PROVE  \A s \in Stored(q) : s \in Stored(r) \/ s = n
<1> DEFINE f == Restricted(r.events, S)
<1>1. DOMAIN f = S /\ \A x \in S : f[x] = r.events[x] BY DEF Restricted
<1> HIDE DEF f
<1>2. \A x \in DOMAIN q.events : (x \in S /\ q.events[x] = r.events[x]) \/ q.events[x].seq = n
  <2>1. CASE q.events = f BY <1>1, <2>1
  <2>2. CASE \E k, e : q.events = SetEvent(f, k, e) /\ e.seq = n BY <1>1, <2>2 DEF SetEvent
  <2> QED BY <2>1, <2>2 DEF f
<1> QED BY <1>2 DEF Stored

LEMMA AssignStream ==
    ASSUME HandoffInv, StreamInv, HandoffInv', Keeps, NEW j \in Jobs, Assign(j)
    PROVE  StreamInv'
<1>1. TypeOK /\ ReceiptsOK /\ alive BY DEF HandoffInv, Assign, TypeOK
<1>2. SendEvent(j, "assignment", None, FALSE) BY DEF Assign, SendAssignment
<1>3. /\ DOMAIN receipts' = Known /\ j \in Known /\ receipts[j].sequence + 2 < MaxSafe
      /\ UNCHANGED <<controller, linked>> /\ Pump(writing, wire)
      BY <1>2 DEF SendEvent, Known
<1>4. OwnerFrame /\ UNCHANGED <<toOwner, replaying, replayed>> BY <1>3 DEF Assign, OwnerFrame, link
<1>5. \A i : Asked(i) => Asked(i)' BY <1>4, SameAsks
<1> DEFINE r == receipts[j]
           q == receipts'[j]
           kept == Restricted(r.events, DOMAIN r.events \ {None})
           snapshot == "assignment" = "interaction-state" \/ "assignment" \in Interactions
           event == [seq |-> r.sequence + 1, pending |-> IF snapshot THEN OpenQuestions(kept, "assignment") ELSE {}]
           warning == [seq |-> (r.sequence + 1) + 1, pending |-> {}]
<1>6. \A i \in Known : i # j => receipts'[i] = receipts[i] BY <1>1, <1>2 DEF SendEvent, ReceiptsOK, Known
<1>7. \/ q = [r EXCEPT !.sequence = r.sequence + 1, !.events = SetEvent(kept, "assignment", event)]
      \/ q = [r EXCEPT !.sequence = r.sequence + 1, !.events = kept]
      \/ q = [r EXCEPT !.sequence = (r.sequence + 1) + 1, !.failed = TRUE,
                       !.events = SetEvent(kept, "delivery-failure", warning)]
      BY <1>1, <1>2, <1>3 DEF SendEvent, ReceiptsOK, Known
<1>8. event.seq = r.sequence + 1 /\ warning.seq = (r.sequence + 1) + 1 OBVIOUS
<1>9. IsReceipt(r) /\ Sound(r) BY <1>1, <1>3 DEF ReceiptsOK, StreamInv, Bounded
<1> HIDE DEF r, q, event, warning
<1>10. /\ q.sent = r.sent /\ q.terminal = r.terminal /\ q.terminalSeq = r.terminalSeq
       /\ q.abandoned = r.abandoned /\ q.acknowledged = r.acknowledged
       /\ \/ q.sequence = r.sequence + 1
             /\ (q.events = kept \/ q.events = SetEvent(kept, "assignment", event))
          \/ q.sequence = (r.sequence + 1) + 1
             /\ q.events = SetEvent(kept, "delivery-failure", warning)
       BY <1>7, <1>9 DEF IsReceipt
<1>11. \A s \in Stored(q) : s \in Stored(r) \/ s = q.sequence
  <2> DEFINE S == DOMAIN r.events \ {None}
  <2>1. S \subseteq DOMAIN r.events /\ kept = Restricted(r.events, S) OBVIOUS
  <2> HIDE DEF S, kept
  <2>2. q.events = kept \/ \E k, e : q.events = SetEvent(kept, k, e) /\ e.seq = q.sequence BY <1>8, <1>10
  <2>3. \/ q.events = Restricted(r.events, S)
        \/ \E k, e : q.events = SetEvent(Restricted(r.events, S), k, e) /\ e.seq = q.sequence
        BY <2>1, <2>2
  <2> QED BY <1>10, <2>1, <2>3, StoredEvent
<1>12. r.sequence \in Nat /\ q.sequence \in Nat /\ r.sequence < q.sequence /\ q.sequence < MaxSafe
  <2>1. r.sequence \in Nat /\ MaxSafe \in Nat BY <1>9, JournalAssumption DEF Sound
  <2>2. r.sequence + 2 < MaxSafe BY <1>3 DEF r
  <2> QED BY <1>10, <2>1, <2>2
<1>13. Sound(q)
  <2>1. Stored(q) \subseteq 0 .. q.sequence
    <3>1. \A s \in Stored(r) : s \in 0 .. q.sequence BY <1>9, <1>12 DEF Sound
    <3> QED BY <1>11, <1>12, <3>1
  <2> QED BY <1>9, <1>10, <1>12, <2>1 DEF Sound
<1>14. \A s \in Stored(q) : s \in Stored(r) \/ s > r.sequence BY <1>11, <1>12
<1>15. Prepared(j, writing)
       BY <1>1, <1>3, <1>5, <1>10, <1>12, <1>13, <1>14, SameWrites, GrownPrepared DEF r, q
<1>16. \A i \in Known : i # j => Prepared(i, writing) BY <1>1, <1>5, <1>6, SameWrites, UntouchedPrepared
<1>17. \A i \in DOMAIN receipts' : Unwanted(i)' => Closed(i)
       BY <1>3, <1>6, <1>10 DEF StreamInv, Unwanted, r, q
<1> QED BY <1>1, <1>3, <1>4, <1>15, <1>16, <1>17, SameWrites, OwnerStream

LEMMA FinishStream ==
    ASSUME HandoffInv, StreamInv, HandoffInv', Keeps, NEW id \in Ids, NEW outcome \in Outcomes, Finish(id, outcome)
    PROVE  StreamInv'
<1>1. TypeOK /\ ReceiptsOK /\ alive BY DEF HandoffInv, Finish, TypeOK
<1>2. CASE SendResponse(id, outcome, FALSE)
  <2>1. /\ DOMAIN receipts' = Known /\ id \in Known /\ receipts[id].sequence + 1 < MaxSafe
        /\ ~receipts[id].abandoned /\ ~receipts[id].acknowledged
        /\ UNCHANGED <<controller, linked>> /\ Pump(writing, wire)
        BY <1>2 DEF SendResponse, Known
  <2>2. OwnerFrame /\ UNCHANGED <<toOwner, replaying, replayed>> BY <2>1 DEF Finish, OwnerFrame, link
  <2>3. \A i : Asked(i) => Asked(i)' BY <2>2, SameAsks
  <2> DEFINE r == receipts[id]
             q == receipts'[id]
             S == DOMAIN r.events \cap {"assignment"}
  <2>4. \A i \in Known : i # id => receipts'[i] = receipts[i] BY <1>1, <1>2 DEF SendResponse, ReceiptsOK, Known
  <2> DEFINE o == IF r.failed THEN "undelivered" ELSE IF FALSE THEN "too-large" ELSE outcome
  <2>5. o # None /\
           q = [r EXCEPT !.sequence = r.sequence + 1, !.terminalSeq = r.sequence + 1, !.terminal = o,
                         !.events = Restricted(r.events, S)]
        BY <1>1, <1>2, <2>1, JournalAssumption DEF SendResponse, ReceiptsOK, Known
  <2>6. IsReceipt(r) /\ Sound(r) BY <1>1, <2>1 DEF ReceiptsOK, StreamInv, Bounded
  <2> HIDE DEF r, q, o
  <2>7. /\ q.sent = r.sent /\ q.terminal = o /\ q.terminalSeq = r.sequence + 1 /\ q.sequence = r.sequence + 1
        /\ q.abandoned = r.abandoned /\ q.acknowledged = r.acknowledged
        /\ q.events = Restricted(r.events, S)
        BY <2>5, <2>6 DEF IsReceipt
  <2>8. \A s \in Stored(q) : s \in Stored(r) \/ s = q.sequence
    <3>1. \A k \in DOMAIN q.events : k \in DOMAIN r.events /\ q.events[k] = r.events[k] BY <2>7 DEF Restricted
    <3> QED BY <2>7, <3>1 DEF Stored
  <2>9. r.sequence \in Nat /\ q.sequence \in Nat /\ r.sequence < q.sequence /\ q.sequence < MaxSafe
    <3>1. r.sequence \in Nat /\ MaxSafe \in Nat BY <2>6, JournalAssumption DEF Sound
    <3>2. r.sequence + 1 < MaxSafe BY <2>1 DEF r
    <3> QED BY <2>7, <3>1, <3>2
  <2>10. Sound(q)
    <3>1. Stored(q) \subseteq 0 .. q.sequence
      <4>1. \A s \in Stored(r) : s \in 0 .. q.sequence BY <2>6, <2>9 DEF Sound
      <4> QED BY <2>8, <2>9, <4>1
    <3> QED BY <2>5, <2>6, <2>7, <2>9, <3>1 DEF Sound
  <2>11. \A s \in Stored(q) : s \in Stored(r) \/ s > r.sequence BY <2>8, <2>9
  <2>12. Prepared(id, writing)
         BY <1>1, <2>1, <2>3, <2>7, <2>9, <2>10, <2>11, SameWrites, GrownPrepared DEF r, q
  <2>13. \A i \in Known : i # id => Prepared(i, writing) BY <1>1, <2>3, <2>4, SameWrites, UntouchedPrepared
  <2>14. \A i \in DOMAIN receipts' : Unwanted(i)' => Closed(i)
         BY <2>1, <2>4, <2>7 DEF StreamInv, Unwanted, r, q
  <2> QED BY <1>1, <2>1, <2>2, <2>12, <2>13, <2>14, SameWrites, OwnerStream
<1>3. CASE SendUnwantedResponse(id)
  <2>1. /\ DOMAIN receipts' = Known \ {id} /\ id \in Known /\ Unwanted(id)
        /\ UNCHANGED <<controller, linked>> /\ writing' = Detached(id) /\ wire' = wire
        /\ \A i \in Known \ {id} : receipts'[i] = receipts[i]
        BY <1>3 DEF SendUnwantedResponse, Forget, Known, Unwanted
  <2>2. OwnerFrame /\ UNCHANGED <<toOwner, replaying, replayed>> BY <2>1 DEF Finish, OwnerFrame, link
  <2>3. \A i : Asked(i) => Asked(i)' BY <2>2, SameAsks
  <2>4. PICK flight : flight = Detached(id) /\ SameWrite(flight) BY <1>1, SameWrites
  <2>5. \A i \in DOMAIN receipts' : Prepared(i, flight) BY <2>1, <2>3, <2>4, UntouchedPrepared
  <2>6. \A i \in DOMAIN receipts' : Unwanted(i)' => Closed(i) BY <2>1 DEF StreamInv, Unwanted
  <2>7. \A i \in Known : i \notin DOMAIN receipts' => Closed(i) BY <2>1 DEF StreamInv
  <2> QED BY <1>1, <2>1, <2>2, <2>4, <2>5, <2>6, <2>7, OwnerStream
<1> QED BY <1>2, <1>3 DEF Finish

LEMMA OwnerWritesStream ==
    ASSUME HandoffInv, StreamInv, HandoffInv', Keeps, OwnerWrites
    PROVE  StreamInv'
<1>1. TypeOK /\ ReceiptsOK /\ WritingOK /\ alive BY DEF HandoffInv, OwnerWrites, TypeOK
<1>2. UNCHANGED <<controller, linked>> /\ DOMAIN receipts' = Known
      BY DEF OwnerWrites, ReceiptWritten, AuxWritten, PumpLater, Known
<1>3. OwnerFrame /\ UNCHANGED <<toOwner, replaying, replayed>> BY <1>2 DEF OwnerWrites, OwnerFrame, link
<1>4. \A i : Asked(i) => Asked(i)' BY <1>3, SameAsks
<1>5. Pump(NoWrite, wire) \/ (writing' = NoWrite /\ wire' = wire)
      BY DEF OwnerWrites, ReceiptWritten, AuxWritten, PumpLater
<1>6. CASE receipts' = receipts
  <2>1. \A i \in Known : Prepared(i, NoWrite) BY <1>1, <1>4, <1>6, SameWrites, UntouchedPrepared
  <2>2. \A i \in Known : Unwanted(i)' => Closed(i) BY <1>6 DEF StreamInv, Unwanted
  <2> QED BY <1>1, <1>2, <1>3, <1>5, <2>1, <2>2, SameWrites, OwnerStream
<1>7. CASE ReceiptWritten /\ writing.current
  <2> PICK id, n : id = writing.id /\ n = writing.seq OBVIOUS
  <2>1. id \in Known /\ n \in Nat
        BY <1>1, <1>7, NumbersAreNaturals DEF WritingOK, ReceiptWritten, Finished, Writes, AuxKinds
  <2>2. /\ receipts'[id] = [receipts[id] EXCEPT !.sent = n]
        /\ \A i \in Known : i # id => receipts'[i] = receipts[i]
        BY <1>1, <1>7, <2>1 DEF ReceiptWritten, ReceiptsOK, Known
  <2>3. n <= receipts[id].sequence BY <2>1 DEF StreamInv, Bounded, Within
  <2>4. peer # "down" /\ Relevant(id) => Written(receipts[id], cursor[id], n, wire, id)
        BY <2>1 DEF StreamInv, Flowing, Flows
  <2>5. Prepared(id, NoWrite) BY <1>1, <2>1, <2>2, <2>3, <2>4, SameWrites, SentPrepared
  <2>6. \A i \in Known : i # id => Prepared(i, NoWrite) BY <1>1, <1>4, <2>2, SameWrites, UntouchedPrepared
  <2>7. \A i \in DOMAIN receipts' : Unwanted(i)' => Closed(i)
    <3>1. IsReceipt(receipts[id]) BY <1>1, <2>1 DEF ReceiptsOK
    <3>2. Unwanted(id)' => Unwanted(id) BY <2>2, <3>1 DEF Unwanted, IsReceipt
    <3> QED BY <1>2, <2>2, <3>2 DEF StreamInv, Unwanted
  <2> QED BY <1>1, <1>2, <1>3, <1>5, <2>5, <2>6, <2>7, SameWrites, OwnerStream
<1> QED BY <1>6, <1>7 DEF OwnerWrites, ReceiptWritten, AuxWritten, PumpLater

-----------------------------------------------------------------------------
(* The controller's steps: it reads the head of the link, moves a cursor,   *)
(* and writes commands that ask for what it has not read.                   *)

\* Acknowledgements ask for nothing, and keep what was written.
LEMMA AcksAskNothing ==
    ASSUME NEW rel \in Seq(Ids), NEW ack \in Seq(Ids), NEW flight, NEW out \in Seq(Commands),
           NEW written, written = <<>> \/ written = AckBatch(rel, ack, flight).out
    PROVE  /\ \A c : Has(out, c) => Has(out \o written, c)
           /\ \A c : Has(out \o written, c) => Has(out, c) \/ c.after = 0
<1>1. /\ written \in Seq(Commands)
      /\ \A n \in DOMAIN written : written[n].after = 0
  <2>1. CASE written = AckBatch(rel, ack, flight).out BY <2>1, BatchOK DEF Acknowledgements
  <2>2. CASE written = <<>>
    <3>1. <<>> \in Seq(Commands) /\ DOMAIN <<>> = {} OBVIOUS
    <3> QED BY <2>2, <3>1
  <2> QED BY <2>1, <2>2
<1>2. \A c : Has(out \o written, c) <=> Has(out, c) \/ Has(written, c) BY <1>1, ConcatHas
<1>3. \A c : Has(written, c) => c.after = 0 BY <1>1 DEF Has
<1> QED BY <1>2, <1>3

LEMMA SendAcksAsksNothing ==
    ASSUME NEW up, NEW rel \in Seq(Ids), NEW ack \in Seq(Ids), NEW flight,
           CommandsOK, SendAcks(up, rel, ack, flight, toOwner)
    PROVE  /\ \A c : Has(toOwner, c) => Has(toOwner', c)
           /\ \A c : Has(toOwner', c) => Has(toOwner, c) \/ c.after = 0
<1> DEFINE written == (IF up THEN AckBatch(rel, ack, flight)
                       ELSE [flight |-> flight, out |-> <<>>]).out
<1>1. toOwner' = toOwner \o written BY DEF SendAcks
<1>2. written = <<>> \/ written = AckBatch(rel, ack, flight).out OBVIOUS
<1>3. toOwner \in Seq(Commands) BY DEF CommandsOK
<1> HIDE DEF written
<1> QED BY <1>1, <1>2, <1>3, AcksAskNothing

\* What is asked stays so while no command is taken back.
LEMMA AskedStays ==
    ASSUME CommandsOK, \A c : Has(toOwner, c) => Has(toOwner', c), UNCHANGED <<replaying, replayed>>,
           NEW id, Asked(id)
    PROVE  Asked(id)'
<1>1. CASE replaying /\ id \notin replayed BY <1>1 DEF Asked
<1>2. CASE \E i \in DOMAIN toOwner : toOwner[i].kind \in {"request", "recover"} /\ toOwner[i].id = id
  <2>1. PICK i \in DOMAIN toOwner : toOwner[i].kind \in {"request", "recover"} /\ toOwner[i].id = id BY <1>2
  <2>2. Has(toOwner', toOwner[i]) BY DEF Has
  <2>3. PICK k \in DOMAIN toOwner' : toOwner'[k] = toOwner[i] BY <2>2 DEF Has
  <2> QED BY <2>1, <2>3 DEF Asked
<1> QED BY <1>1, <1>2 DEF Asked

\* Of the wire, what is left.
LEMMA WireStays ==
    ASSUME NEW w \in Seq(WireMessages), NEW v, v \in {w, <<>>} \/ (w # <<>> /\ v = Tail(w)), NEW id
    PROVE  /\ \A n, write : Within(n, write, w, id) => Within(n, write, v, id)
           /\ \A r : \A c, d, n \in Nat :
                 /\ Stored(r) \subseteq Nat /\ c <= d
                 /\ v = w \/ (w # <<>> /\ v = Tail(w) /\ (Head(w).id = id => Head(w).seq <= d))
                 => /\ InOrder(r, c, w, id) => InOrder(r, d, v, id)
                    /\ Written(r, c, n, w, id) => Written(r, d, n, v, id)
<1>1. w # <<>> =>
         /\ Head(w) = w[1]
         /\ \A i \in DOMAIN Tail(w) : i + 1 \in DOMAIN w /\ Tail(w)[i] = w[i + 1] /\ i \in Nat
         /\ \A i \in DOMAIN w : i # 1 => i - 1 \in DOMAIN Tail(w) /\ Tail(w)[i - 1] = w[i]
         /\ \A i \in DOMAIN w : i \in Nat
      OBVIOUS
<1>2. \A n, write : Within(n, write, w, id) => Within(n, write, v, id)
  <2>1. CASE v = w BY <2>1
  <2>2. CASE v = <<>> BY <2>2 DEF Within
  <2>3. CASE w # <<>> /\ v = Tail(w) BY <1>1, <2>3 DEF Within
  <2> QED BY <2>1, <2>2, <2>3
<1>3. ASSUME NEW r, NEW c \in Nat, NEW d \in Nat, NEW n \in Nat, Stored(r) \subseteq Nat, c <= d,
             v = w \/ (w # <<>> /\ v = Tail(w) /\ (Head(w).id = id => Head(w).seq <= d))
      PROVE  /\ InOrder(r, c, w, id) => InOrder(r, d, v, id)
             /\ Written(r, c, n, w, id) => Written(r, d, n, v, id)
  <2>1. \A s \in Stored(r) : d < s => c < s BY <1>3
  <2>2. CASE v = w BY <2>1, <2>2 DEF InOrder, Written
  <2>3. CASE w # <<>> /\ v = Tail(w) /\ (Head(w).id = id => Head(w).seq <= d)
    <3>1. InOrder(r, c, w, id) => InOrder(r, d, v, id)
      <4> SUFFICES ASSUME InOrder(r, c, w, id), NEW i \in DOMAIN v, v[i].id = id,
                          NEW s \in Stored(r), d < s, s < v[i].seq
                   PROVE  \E h \in DOMAIN v : h < i /\ v[h].id = id /\ v[h].seq = s
          BY DEF InOrder
      <4>1. i + 1 \in DOMAIN w /\ v[i] = w[i + 1] /\ i \in Nat BY <1>1, <2>3
      <4>2. PICK h \in DOMAIN w : h < i + 1 /\ w[h].id = id /\ w[h].seq = s BY <2>1, <4>1 DEF InOrder
      <4>3. h # 1 BY <1>1, <1>3, <2>3, <4>2
      <4>4. h - 1 \in DOMAIN v /\ v[h - 1] = w[h] /\ h - 1 < i BY <1>1, <2>3, <4>1, <4>2, <4>3
      <4> QED BY <4>2, <4>4
    <3>2. Written(r, c, n, w, id) => Written(r, d, n, v, id)
      <4> SUFFICES ASSUME Written(r, c, n, w, id), NEW s \in Stored(r), d < s, s <= n
                   PROVE  Holds(v, id, s)
          BY DEF Written
      <4>1. PICK h \in DOMAIN w : w[h].id = id /\ w[h].seq = s BY <2>1 DEF Written, Holds
      <4>2. h # 1 BY <1>1, <1>3, <2>3, <4>1
      <4>3. h - 1 \in DOMAIN v /\ v[h - 1] = w[h] BY <1>1, <2>3, <4>2
      <4> QED BY <4>1, <4>3 DEF Holds
    <3> QED BY <3>1, <3>2
  <2> QED BY <1>3, <2>2, <2>3
<1> QED BY <1>2, <1>3

\* A step that leaves the receipts: no cursor goes back for a request that
\* waits, or passes a number that was not written; a message it reads is not
\* above the cursor; a command it writes asks for nothing below the cursor; and
\* who waits behind a silent receipt has asked.
LEMMA ControllerStream ==
    ASSUME HandoffInv, StreamInv, HandoffInv', Keeps, receipts' = receipts,
           writing' = writing \/ writing' = NoWrite,
           wire' \in {wire, <<>>} \/ (wire # <<>> /\ wire' = Tail(wire)),
           \A id \in Ids : \/ cursor'[id] = cursor[id] \/ cursor'[id] = 0
                           \/ \E i \in DOMAIN wire : wire[i].id = id /\ wire[i].seq = cursor'[id],
           \A c \in Commands : Has(toOwner', c) => Has(toOwner, c) \/ c.after <= cursor'[c.id],
           \A id \in Known : peer' # "down" /\ Relevant(id)' =>
              /\ peer # "down" /\ Relevant(id) /\ cursor[id] <= cursor'[id]
              /\ \/ wire' = wire
                 \/ wire # <<>> /\ wire' = Tail(wire) /\ (Head(wire).id = id => Head(wire).seq <= cursor'[id])
              /\ peer' = "ready" => (peer = "ready" /\ (Asked(id) => Asked(id)')) \/ Asked(id)',
           alive' = alive \/ \A id \in Ids : Started(id) => Gone(id)',
           controller' \in {None, Controller'} \/ \A r \in Queries : ~Has(pending', r)
    PROVE  StreamInv'
<1>1. TypeOK BY DEF HandoffInv
<1>2. SameWrite(writing') BY <1>1, SameWrites
<1>3. wire \in Seq(WireMessages) /\ Known \subseteq Ids /\ (\A c \in Commands : c.after \in Nat /\ c.id \in Ids)
      /\ \A id \in Ids : cursor[id] \in Nat
      BY NumbersAreNaturals DEF Commands
<1>4. \A id \in Ids : cursor'[id] \in Nat BY DEF HandoffInv, PeersOK, Numbers
<1>5. \A id \in Ids : /\ Started(id) => Started(id)'
                      /\ Closed(id) => Closed(id)'
                      /\ Gone(id) => Gone(id)'
      BY GoneStays DEF Keeps
<1>6. Known' = Known BY DEF Known
<1>7. ASSUME NEW id \in Ids, NEW n \in Nat, Within(n, writing, wire, id)
      PROVE  Within(n, writing', wire', id)
  <2>1. Within(n, writing', wire, id) BY <1>2, <1>7 DEF Within, SameWrite
  <2> QED BY <1>3, <2>1, WireStays
<1>8. ASSUME NEW id \in Ids, NEW n \in Nat, After(toOwner, id, n), cursor'[id] <= n
      PROVE  After(toOwner', id, n)
  <2>1. ASSUME NEW c \in Commands, Has(toOwner', c), c.id = id PROVE c.after <= n
    <3>1. CASE Has(toOwner, c) BY <1>8, <2>1, <3>1 DEF After
    <3>2. CASE c.after <= cursor'[c.id] BY <1>3, <1>4, <1>8, <2>1, <3>2
    <3> QED BY <2>1, <3>1, <3>2
  <2> QED BY <2>1 DEF After
<1>9. ASSUME NEW id \in Known PROVE Bounded(id)'
  <2> DEFINE r == receipts[id]
  <2>1. Sound(r) /\ Within(r.sequence, writing, wire, id) /\ After(toOwner, id, r.sequence) /\ cursor[id] <= r.sequence
        BY <1>9 DEF StreamInv, Bounded
  <2>2. r.sequence \in Nat BY <2>1 DEF Sound
  <2>3. cursor'[id] <= r.sequence BY <1>3, <1>9, <2>1, <2>2 DEF Within
  <2>4. Within(r.sequence, writing', wire', id) BY <1>3, <1>7, <1>9, <2>1, <2>2
  <2>5. After(toOwner', id, r.sequence) BY <1>3, <1>8, <1>9, <2>1, <2>2, <2>3
  <2>6. receipts'[id] = r OBVIOUS
  <2> HIDE DEF r
  <2> QED BY <2>1, <2>3, <2>4, <2>5, <2>6 DEF Bounded
<1>10. ASSUME NEW id \in Known, peer' # "down", Relevant(id)' PROVE Flowing(id)'
  <2> DEFINE r == receipts[id]
             c == cursor[id]
             d == cursor'[id]
  <2>1. peer # "down" /\ Relevant(id) /\ c <= d /\ c \in Nat /\ d \in Nat /\ id \in Ids BY <1>3, <1>4, <1>10
  <2>2. /\ Flows(r, c, writing, wire, id) /\ After(toOwner, id, c)
        /\ r.sent > r.sequence /\ peer = "ready" => Asked(id)
        BY <1>10, <2>1 DEF StreamInv, Flowing
  <2>3. wire' = wire \/ (wire # <<>> /\ wire' = Tail(wire) /\ (Head(wire).id = id => Head(wire).seq <= d))
        BY <1>10
  <2>4. peer' = "ready" => (peer = "ready" /\ (Asked(id) => Asked(id)')) \/ Asked(id)' BY <1>10
  <2>5. receipts'[id] = r /\ Sound(r) BY <1>10 DEF StreamInv, Bounded
  <2>6. \A n \in Nat : After(toOwner, id, n) /\ d <= n => After(toOwner', id, n) BY <1>8, <2>1
  <2>7. r.sent \in Nat /\ Stored(r) \subseteq Nat /\ writing.seq \in Nat
        BY <2>5, NumbersAreNaturals DEF Sound
  <2>8. writing'.id = id => writing.id = id /\ writing'.seq = writing.seq BY <1>2, <2>1 DEF SameWrite
  <2> HIDE DEF r, c, d
  <2>9. \A n \in Nat :
           /\ InOrder(r, c, wire, id) => InOrder(r, d, wire', id)
           /\ Written(r, c, n, wire, id) => Written(r, d, n, wire', id)
        BY <1>3, <2>1, <2>3, <2>7, WireStays
  <2>10. Flows(r, d, writing', wire', id)
    <3>1. InOrder(r, c, wire, id) => InOrder(r, d, wire', id) BY <2>9
    <3>2. Written(r, c, writing.seq, wire, id) => Written(r, d, writing.seq, wire', id) BY <2>7, <2>9
    <3>3. Written(r, c, r.sent, wire, id) => Written(r, d, r.sent, wire', id) BY <2>7, <2>9
    <3>4. writing'.id = id => Written(r, d, writing'.seq, wire', id) BY <2>2, <2>8, <3>2 DEF Flows
    <3> QED BY <2>2, <3>1, <3>3, <3>4 DEF Flows
  <2>11. After(toOwner', id, d)
    <3>1. After(toOwner, id, d) BY <1>3, <2>1, <2>2 DEF After
    <3> QED BY <2>1, <2>6, <3>1
  <2>12. r.sent > r.sequence /\ peer' = "ready" => Asked(id)' BY <2>2, <2>4
  <2> QED BY <2>5, <2>10, <2>11, <2>12 DEF Flowing, d
<1>11. ASSUME NEW id \in Ids, id \notin Known
       PROVE  Gone(id)' \/ (~alive' /\ Started(id)') \/ Unnumbered(id)'
  <2>1. CASE Gone(id) BY <1>5, <2>1
  <2>2. CASE ~alive /\ Started(id) BY <1>5, <2>2
  <2>3. CASE Unnumbered(id)
    <3>1. cursor[id] = 0 /\ Within(0, writing, wire, id) /\ After(toOwner, id, 0) BY <2>3 DEF Unnumbered
    <3>2. cursor'[id] = 0 BY <1>3, <1>4, <3>1, NumbersAreNaturals DEF Within
    <3> QED BY <1>7, <1>8, <3>1, <3>2 DEF Unnumbered
  <2> QED BY <1>11, <2>1, <2>2, <2>3 DEF StreamInv
<1>12. \A id \in Known : Unwanted(id)' => Closed(id)' BY <1>3, <1>5 DEF StreamInv, Unwanted
<1> QED BY <1>6, <1>9, <1>10, <1>11, <1>12 DEF StreamInv

-----------------------------------------------------------------------------
(* Events and responses are numbered, and nothing else is.                  *)
RightlyNumbered(m) == m.kind \in {"event", "response"} <=> m.seq # 0
Plain == \A m \in WireMessages : Has(wire, m) => RightlyNumbered(m)

LEMMA NextIsPlain ==
    ReceiptsOK /\ OrderOK /\ ControlOK /\ HasNext
    => \A m : m = NextMessage => RightlyNumbered(m)
<1> SUFFICES ASSUME ReceiptsOK, OrderOK, ControlOK, HasNext
             PROVE  RightlyNumbered(NextMessage)
    OBVIOUS
<1>1. CASE AuxTurn
  <2>1. aux # <<>> /\ NextMessage = Head(aux) BY <1>1 DEF HasNext, AuxTurn, NextMessage
  <2>2. NextMessage \in AuxMessages BY <2>1, TailHas DEF ControlOK
  <2>3. NextMessage.seq = 0 /\ NextMessage.kind \in AuxKinds BY <2>1, <2>2 DEF AuxMessages
  <2> QED BY <2>3 DEF RightlyNumbered, AuxKinds
<1>2. CASE ~AuxTurn
  <2>1. Ready # {} /\ NextMessage = NextReceipt BY <1>2 DEF AuxTurn, NextMessage
  <2>2. FirstReady \in Known /\ NextReceipt \in Unsent(FirstReady) BY <2>1, NextReceiptOK
  <2>3. NextReceipt.kind \in {"event", "response"} BY <2>2 DEF Unsent, Message
  <2>4. IsReceipt(receipts[FirstReady]) BY <2>2 DEF ReceiptsOK
  <2>5. receipts[FirstReady].sent \in Nat BY <2>4 DEF IsReceipt, Numbers
  <2>6. NextReceipt.seq \in Numbers BY <2>2, UnsentOK
  <2>7. NextReceipt.seq > receipts[FirstReady].sent BY <2>2 DEF Unsent, Message
  <2>8. NextReceipt.seq # 0 BY <2>5, <2>6, <2>7 DEF Numbers
  <2> QED BY <2>1, <2>3, <2>8 DEF RightlyNumbered
<1> QED BY <1>1, <1>2

LEMMA PlainStep ==
    HandoffInv /\ Plain /\ [HandoffNext]_handoffVars /\ HandoffInv' => Plain'
<1> SUFFICES ASSUME HandoffInv, Plain, [HandoffNext]_handoffVars, HandoffInv' PROVE Plain' OBVIOUS
<1> DEFINE ready == Message("ready", None, None, 0, {}, None)
<1>1. wire \in Seq(WireMessages) BY DEF HandoffInv, MessagesOK
<1>2. \/ wire' \in {wire, <<>>} \/ (wire # <<>> /\ wire' = Tail(wire))
      \/ \E flight : Pump(flight, wire) \/ Pump(flight, <<ready>>)
  <2>1. CASE \/ \E j \in Jobs : StartJob(j) \/ Commit(j)
             \/ \E r \in Queries : StartQuery(r)
             \/ RetryAcks \/ ReplayNext \/ SeeExit \/ UNCHANGED handoffVars
        BY <2>1 DEF StartJob, Commit, StartQuery, RetryAcks, ReplayNext, SeeExit, handoffVars, journalVars
  <2>2. CASE ControllerGets
        BY <2>2 DEF ControllerGets, GetReady, GetAcknowledged, GetAssignment, GetResponse, IgnoreMessage,
                    Incoming, Read
  <2>3. CASE \/ LinkDrops \/ AssignmentRefused \/ OwnerNotices \/ ControllerRestarts \/ OwnerExits
        BY <2>3 DEF LinkDrops, AssignmentRefused, OwnerNotices, ControllerRestarts, OwnerExits, Lost,
                    Disconnect, journalVars
  <2>4. CASE Establish
    <3>1. Connect(Controller, <<ready>>) BY <2>4 DEF Establish
    <3>2. \A c, greeting : Connect(c, greeting) => Pump(NoWrite, greeting) BY Zenon DEF Connect
    <3> HIDE DEF ready
    <3>3. Pump(NoWrite, <<ready>>) BY <3>1, <3>2
    <3> QED BY <3>3
  <2>5. CASE OwnerHandles
        BY <2>5 DEF OwnerHandles, OwnerAdmits, OwnerRecovers, OwnerAcknowledges, Admit, AdmitNew, AdmitExisting,
                    AdmitConflict, AdmitTombstoned, AdmitOverCapacity, Recover, RecoverKnown, RecoverMissing,
                    ReplyError, Acknowledge
  <2>6. CASE OwnerWrites BY <2>6 DEF OwnerWrites, ReceiptWritten, AuxWritten, PumpLater
  <2>7. CASE \E j \in Jobs : Assign(j) BY <2>7 DEF Assign, SendAssignment, SendEvent
  <2>8. CASE \E id \in Ids, o \in Outcomes : Finish(id, o)
        BY <2>8 DEF Finish, SendResponse, SendUnwantedResponse
  <2> QED BY <2>1, <2>2, <2>3, <2>4, <2>5, <2>6, <2>7, <2>8 DEF HandoffNext
<1>3. CASE wire' \in {wire, <<>>} \/ (wire # <<>> /\ wire' = Tail(wire))
  <2>1. \A m : Has(wire', m) => Has(wire, m) BY <1>1, <1>3, TailHas, NothingHas
  <2> QED BY <2>1 DEF Plain, Has
<1>4. ASSUME NEW flight, NEW w \in Seq(WireMessages), Pump(flight, w),
             \A m \in WireMessages : Has(w, m) => RightlyNumbered(m)
      PROVE  Plain'
  <2>1. CASE wire' = w BY <1>4, <2>1 DEF Plain, Has
  <2>2. CASE HasNext' /\ wire' = Append(w, NextMessage')
    <3>1. (ReceiptsOK /\ OrderOK /\ ControlOK /\ HasNext
             => \A m : m = NextMessage => RightlyNumbered(m))'
          BY NextIsPlain, PTL
    <3>2. (ReceiptsOK /\ OrderOK /\ ControlOK /\ HasNext
             /\ (\A m \in WireMessages : Has(aux, m) => MessageOK(m))
           => NextMessage \in WireMessages /\ \A m : m = NextMessage => MessageOK(m))'
          BY NextIsOK, PTL
    <3>3. ReceiptsOK' /\ OrderOK' /\ ControlOK' /\ (\A m \in WireMessages : Has(aux, m) => MessageOK(m))'
          BY DEF HandoffInv, TypeOK, MessagesOK, Has
    <3>4. PICK m : m = NextMessage' OBVIOUS
    <3>5. m \in WireMessages /\ RightlyNumbered(m)
          BY <2>2, <3>1, <3>2, <3>3, <3>4 DEF WireMessages, RightlyNumbered
    <3>6. \A x : Has(wire', x) <=> Has(w, x) \/ x = m BY <1>4, <2>2, <3>4, <3>5, AppendHas
    <3> QED BY <1>4, <3>5, <3>6 DEF Plain, Has
  <2> QED BY <1>4, <2>1, <2>2 DEF Pump
<1>5. CASE \E flight : Pump(flight, wire) BY <1>1, <1>4, <1>5 DEF Plain
<1>6. CASE \E flight : Pump(flight, <<ready>>)
  <2>1. ready \in WireMessages /\ RightlyNumbered(ready)
        BY JournalAssumption DEF Message, WireMessages, Numbers, RightlyNumbered
  <2> HIDE DEF ready
  <2>2. <<ready>> \in Seq(WireMessages) /\ \A m : Has(<<ready>>, m) => m = ready BY <2>1 DEF Has
  <2> QED BY <1>4, <1>6, <2>1, <2>2
<1> QED BY <1>2, <1>3, <1>5, <1>6

-----------------------------------------------------------------------------
(* Each step of the controller and of the link.                             *)

LEMMA HeadOfWire ==
    ASSUME HandoffInv, Plain, wire # <<>>
    PROVE  /\ 1 \in DOMAIN wire /\ Msg = wire[1] /\ Msg \in WireMessages
           /\ RightlyNumbered(Msg) /\ MessageOK(Msg) /\ Msg.seq \in Nat
<1>1. wire \in Seq(WireMessages) BY DEF HandoffInv, MessagesOK
<1>2. 1 \in DOMAIN wire /\ Msg = wire[1] /\ Msg \in WireMessages BY <1>1 DEF Msg
<1>3. Has(wire, Msg) BY <1>2 DEF Has
<1>4. Msg.seq \in Nat BY <1>2 DEF WireMessages, Numbers
<1> QED BY <1>2, <1>3, <1>4 DEF Plain, HandoffInv, MessagesOK

\* A step that moves no cursor, reads at most a message without a number, and
\* takes back no command.
LEMMA QuietStream ==
    ASSUME HandoffInv, StreamInv, HandoffInv', Keeps,
           UNCHANGED <<receipts, writing, cursor, controller, alive, faults, replaying, replayed, peer>>,
           wire' = wire \/ (wire # <<>> /\ wire' = Tail(wire)
                            /\ \A id \in Known : Relevant(id)' /\ Head(wire).id = id => Head(wire).seq <= cursor[id]),
           \A id \in Known : Relevant(id)' => Relevant(id),
           \A r \in Queries : Has(pending', r) => Has(pending, r) \/ Connected,
           \A c : Has(toOwner, c) => Has(toOwner', c),
           \A c \in Commands : Has(toOwner', c) => Has(toOwner, c) \/ c.after = 0
    PROVE  StreamInv'
<1>1. CommandsOK BY DEF HandoffInv
<1>2. \A id : Asked(id) => Asked(id)' BY <1>1, AskedStays
<1>3. controller' \in {None, Controller'} \/ \A r \in Queries : ~Has(pending', r)
  <2>1. Controller' = Controller BY DEF Controller
  <2>2. CASE Connected BY <2>1, <2>2 DEF Connected, HandoffInv, PeersOK
  <2>3. CASE ~Connected BY <2>1, <2>3 DEF StreamInv
  <2> QED BY <2>2, <2>3
<1>4. Known \subseteq Ids /\ \A id \in Ids : cursor[id] \in Nat BY NumbersAreNaturals
<1>5. \A c \in Commands : Has(toOwner', c) => Has(toOwner, c) \/ c.after <= cursor'[c.id]
  <2>1. \A c \in Commands : c.id \in Ids BY DEF Commands
  <2> QED BY <1>4, <2>1
<1>6. \A id \in Known : peer' # "down" /\ Relevant(id)' =>
         /\ peer # "down" /\ Relevant(id) /\ cursor[id] <= cursor'[id]
         /\ \/ wire' = wire
            \/ wire # <<>> /\ wire' = Tail(wire) /\ (Head(wire).id = id => Head(wire).seq <= cursor'[id])
         /\ peer' = "ready" => (peer = "ready" /\ (Asked(id) => Asked(id)')) \/ Asked(id)'
      BY <1>2, <1>4
<1> QED BY <1>3, <1>5, <1>6, ControllerStream

LEMMA RetryAcksStream ==
    ASSUME HandoffInv, StreamInv, HandoffInv', Keeps, RetryAcks
    PROVE  StreamInv'
<1>1. released \in Seq(Ids) /\ acks \in Seq(Ids) /\ CommandsOK BY DEF HandoffInv, RepliesOK
<1>2. SendAcks(Connected, released, acks, {}, toOwner) /\ released' = released BY DEF RetryAcks, SendAcks
<1>3. /\ UNCHANGED <<receipts, writing, cursor, controller, alive, faults, replaying, replayed, peer, wire, pending>>
      BY DEF RetryAcks, journalVars
<1>4. \A id : Relevant(id)' => Relevant(id) BY <1>2, <1>3 DEF Relevant, Has
<1>5. /\ \A c : Has(toOwner, c) => Has(toOwner', c)
      /\ \A c : Has(toOwner', c) => Has(toOwner, c) \/ c.after = 0
      BY <1>1, <1>2, SendAcksAsksNothing
<1> QED BY <1>3, <1>4, <1>5, QuietStream DEF Has

LEMMA GetReadyStream ==
    ASSUME HandoffInv, StreamInv, Plain, HandoffInv', Keeps, GetReady
    PROVE  StreamInv'
<1>1. released \in Seq(Ids) /\ acks \in Seq(Ids) /\ CommandsOK BY DEF HandoffInv, RepliesOK
<1>2. /\ SendAcks(TRUE, released, acks, {}, toOwner) /\ released' = released
      /\ wire # <<>> /\ wire' = Tail(wire) /\ Head(wire).kind = "ready" /\ peer # "down"
      /\ UNCHANGED <<receipts, writing, cursor, controller, alive, faults, pending>>
      /\ replaying' = NeedsReplay /\ replayed' = {}
      BY DEF GetReady, SendAcks, Incoming, Read
<1>3. Head(wire).seq = 0 BY <1>2, HeadOfWire DEF Msg, RightlyNumbered
<1>4. \A c : Has(toOwner', c) => Has(toOwner, c) \/ c.after = 0 BY <1>1, <1>2, SendAcksAsksNothing
<1>5. Known \subseteq Ids /\ \A id \in Ids : cursor[id] \in Nat BY NumbersAreNaturals
<1>6. \A id : Relevant(id)' => Relevant(id) BY <1>2 DEF Relevant, Has
<1>7. ASSUME NEW id \in Ids, Relevant(id) PROVE Asked(id)'
  <2>1. id \in Range(pending) \ Range(released) BY <1>7 DEF Relevant, Has, Range
  <2>2. NeedsReplay BY <2>1 DEF NeedsReplay
  <2> QED BY <1>2, <2>2 DEF Asked
<1>8. \A id \in Known : peer' # "down" /\ Relevant(id)' =>
         /\ peer # "down" /\ Relevant(id) /\ cursor[id] <= cursor'[id]
         /\ \/ wire' = wire
            \/ wire # <<>> /\ wire' = Tail(wire) /\ (Head(wire).id = id => Head(wire).seq <= cursor'[id])
         /\ peer' = "ready" => (peer = "ready" /\ (Asked(id) => Asked(id)')) \/ Asked(id)'
      BY <1>2, <1>3, <1>5, <1>6, <1>7
<1>9. \A c \in Commands : Has(toOwner', c) => Has(toOwner, c) \/ c.after <= cursor'[c.id]
  <2>1. \A c \in Commands : c.id \in Ids BY DEF Commands
  <2> QED BY <1>2, <1>4, <1>5, <2>1
<1>10. controller' \in {None, Controller'} \/ \A r \in Queries : ~Has(pending', r)
  <2>1. Controller' = Controller BY <1>2 DEF Controller
  <2> QED BY <1>2, <2>1 DEF StreamInv
<1> QED BY <1>2, <1>8, <1>9, <1>10, ControllerStream

LEMMA DispatchAsks ==
    ASSUME NEW out \in Seq(Commands), NEW id \in Ids, pending \in Seq(Ids), Dispatch(id, out)
    PROVE  /\ \A c : Has(out, c) => Has(toOwner', c)
           /\ \A c : Has(toOwner', c) => Has(out, c) \/ c.after = 0
           /\ \A x : Has(pending', x) => Has(pending, x) \/ x = id
<1> DEFINE c0 == SendTo("request", id, 0)
<1>1. c0 \in Commands /\ c0.after = 0 BY JournalAssumption DEF SendTo, Commands, Numbers
<1>2. toOwner' = Append(out, c0) /\ pending' = Append(pending, id) BY DEF Dispatch
<1> HIDE DEF c0
<1>3. \A c : Has(toOwner', c) <=> Has(out, c) \/ c = c0 BY <1>1, <1>2, AppendHas
<1>4. \A x : Has(pending', x) <=> Has(pending, x) \/ x = id BY <1>2, AppendHas
<1> QED BY <1>1, <1>3, <1>4

LEMMA StartJobStream ==
    ASSUME HandoffInv, StreamInv, HandoffInv', Keeps, NEW j \in Jobs, StartJob(j)
    PROVE  StreamInv'
<1>1. /\ released \in Seq(Ids) /\ acks' \in Seq(Ids) /\ toOwner \in Seq(Commands)
      /\ pending \in Seq(Ids) /\ j \in Ids /\ j \notin Queries /\ Known \subseteq Ids
      BY IdKinds DEF HandoffInv, RepliesOK, CommandsOK, PendingOK, TypeOK, ReceiptsOK
<1>2. /\ UNCHANGED <<receipts, writing, cursor, controller, alive, faults, replaying, replayed, peer, wire, released>>
      BY DEF StartJob, Dispatch, journalVars
<1>3. j \notin Known BY IdKinds DEF StartJob, HandoffInv, EntriesOK, Started
<1> DEFINE written == (IF Connected /\ Unacknowledged # {} THEN AckBatch(released, acks', inFlight)
                       ELSE [flight |-> inFlight, out |-> <<>>]).out
           out == toOwner \o written
<1>4. /\ out \in Seq(Commands)
      /\ \A c : Has(toOwner, c) => Has(out, c)
      /\ \A c : Has(out, c) => Has(toOwner, c) \/ c.after = 0
  <2>1. written = <<>> \/ written = AckBatch(released, acks', inFlight).out OBVIOUS
  <2>2. written \in Seq(Commands)
    <3>1. <<>> \in Seq(Commands) OBVIOUS
    <3> HIDE DEF written
    <3> QED BY <1>1, <2>1, <3>1, BatchOK DEF Acknowledgements
  <2> HIDE DEF written
  <2>3. out \in Seq(Commands) BY <1>1, <2>2
  <2>4. /\ \A c : Has(toOwner, c) => Has(toOwner \o written, c)
        /\ \A c : Has(toOwner \o written, c) => Has(toOwner, c) \/ c.after = 0
    <3>1. PICK ack, flight, w : ack = acks' /\ flight = inFlight /\ w = written OBVIOUS
    <3>2. ack \in Seq(Ids) /\ (w = <<>> \/ w = AckBatch(released, ack, flight).out) BY <1>1, <2>1, <3>1
    <3>3. released \in Seq(Ids) /\ toOwner \in Seq(Commands) BY <1>1
    <3>4. /\ \A c : Has(toOwner, c) => Has(toOwner \o w, c)
          /\ \A c : Has(toOwner \o w, c) => Has(toOwner, c) \/ c.after = 0
          BY <3>2, <3>3, AcksAskNothing, SMTT(30)
    <3> QED BY <3>1, <3>4
  <2> QED BY <2>3, <2>4
<1>5. Dispatch(j, out) \/ (toOwner' = out /\ UNCHANGED pending) BY DEF StartJob
<1> HIDE DEF out
<1>6. /\ \A c : Has(out, c) => Has(toOwner', c)
      /\ \A c : Has(toOwner', c) => Has(out, c) \/ c.after = 0
      /\ \A x : Has(pending', x) => Has(pending, x) \/ x = j
      BY <1>1, <1>4, <1>5, DispatchAsks DEF Has
<1>7. \A id \in Known : Relevant(id)' => Relevant(id) BY <1>2, <1>3, <1>6 DEF Relevant, Has
<1>8. \A r \in Queries : Has(pending', r) => Has(pending, r) BY <1>1, <1>6
<1>9. /\ \A c : Has(toOwner, c) => Has(toOwner', c)
      /\ \A c \in Commands : Has(toOwner', c) => Has(toOwner, c) \/ c.after = 0
      BY <1>4, <1>6
<1> QED BY <1>2, <1>7, <1>8, <1>9, QuietStream

LEMMA StartQueryStream ==
    ASSUME HandoffInv, StreamInv, HandoffInv', Keeps, NEW r \in Queries, StartQuery(r)
    PROVE  StreamInv'
<1>1. toOwner \in Seq(Commands) /\ pending \in Seq(Ids) /\ r \in Ids /\ r \notin Jobs /\ Known \subseteq Ids
      BY IdKinds DEF HandoffInv, CommandsOK, PendingOK, TypeOK, ReceiptsOK
<1>2. /\ UNCHANGED <<receipts, writing, cursor, controller, alive, faults, replaying, replayed, peer, wire, released>>
      /\ Connected /\ Dispatch(r, toOwner)
      BY DEF StartQuery, Dispatch, journalVars
<1>3. r \notin Known BY <1>1 DEF StartQuery, HandoffInv, EntriesOK, Started
<1>4. /\ \A c : Has(toOwner, c) => Has(toOwner', c)
      /\ \A c : Has(toOwner', c) => Has(toOwner, c) \/ c.after = 0
      /\ \A x : Has(pending', x) => Has(pending, x) \/ x = r
      BY <1>1, <1>2, DispatchAsks
<1>5. \A id \in Known : Relevant(id)' => Relevant(id) BY <1>2, <1>3, <1>4 DEF Relevant, Has
<1> QED BY <1>2, <1>4, <1>5, QuietStream

LEMMA CommitStream ==
    ASSUME HandoffInv, StreamInv, HandoffInv', Keeps, NEW j \in Jobs, Commit(j)
    PROVE  StreamInv'
<1>1. released \in Seq(Ids) /\ acks' \in Seq(Ids) /\ CommandsOK
      BY DEF HandoffInv, RepliesOK
<1>2. /\ UNCHANGED <<receipts, writing, cursor, controller, alive, faults, replaying, replayed, peer, wire, pending>>
      /\ released' = released
      BY DEF Commit, journalVars, SendAcks, NoAcks
<1>3. \A id : Relevant(id)' => Relevant(id) BY <1>2 DEF Relevant, Has
<1>4. /\ \A c : Has(toOwner, c) => Has(toOwner', c)
      /\ \A c : Has(toOwner', c) => Has(toOwner, c) \/ c.after = 0
  <2>1. CASE toOwner' = toOwner BY <2>1 DEF Has
  <2>2. CASE SendAcks(Connected, released, acks', inFlight, toOwner) BY <1>1, <2>2, SendAcksAsksNothing
  <2> QED BY <2>1, <2>2 DEF Commit, SendAcks
<1> QED BY <1>2, <1>3, <1>4, QuietStream DEF Has

LEMMA GetAcknowledgedStream ==
    ASSUME HandoffInv, StreamInv, Plain, HandoffInv', Keeps, GetAcknowledged
    PROVE  StreamInv'
<1> PICK id : id = Msg.id OBVIOUS
<1>1. /\ released \in Seq(Ids) /\ acks \in Seq(Ids) /\ CommandsOK /\ pending \in Seq(Ids) /\ Distinct(pending)
      BY DEF HandoffInv, RepliesOK, PendingOK
<1>2. /\ UNCHANGED <<receipts, writing, cursor, controller, alive, faults, replaying, replayed, peer>>
      /\ wire # <<>> /\ wire' = Tail(wire) /\ Msg.kind = "acknowledged" /\ released' = Without(released, id)
      /\ pending' = IF Has(released, id) THEN Without(pending, id) ELSE pending
      /\ SendAcks(Connected, Without(released, id), Without(acks, id), inFlight \ {id}, toOwner)
      BY DEF GetAcknowledged, Incoming, Read, SendAcks, Msg, Take
<1>3. Msg.seq = 0 BY <1>2, HeadOfWire DEF RightlyNumbered
<1>4. Without(released, id) \in Seq(Ids) /\ Without(acks, id) \in Seq(Ids) BY <1>1, WithoutHas
<1>5. /\ \A c : Has(toOwner, c) => Has(toOwner', c)
      /\ \A c : Has(toOwner', c) => Has(toOwner, c) \/ c.after = 0
      BY <1>1, <1>2, <1>4, SendAcksAsksNothing
<1>6. /\ \A x : Has(pending', x) => Has(pending, x)
      /\ Has(released, id) => ~Has(pending', id)
      BY <1>1, <1>2, WithoutHas
<1>7. \A x : Has(released, x) /\ x # id => Has(released', x) BY <1>1, <1>2, WithoutHas
<1>8. \A x : Relevant(x)' => Relevant(x) BY <1>6, <1>7 DEF Relevant, Has
<1>9. \A x \in Known : Head(wire).seq <= cursor[x] BY <1>3, NumbersAreNaturals DEF Msg
<1> QED BY <1>2, <1>5, <1>6, <1>8, <1>9, QuietStream

LEMMA IgnoreMessageStream ==
    ASSUME HandoffInv, StreamInv, HandoffInv', Keeps, IgnoreMessage
    PROVE  StreamInv'
<1>1. /\ UNCHANGED <<receipts, writing, cursor, controller, alive, faults, replaying, replayed, peer,
                     pending, released, toOwner>>
      /\ wire # <<>> /\ wire' = Tail(wire) /\ (~Relevant(Msg.id) \/ Stale)
      BY DEF IgnoreMessage, Incoming, Read, proxy, link
<1>2. \A x : Relevant(x)' = Relevant(x) BY <1>1 DEF Relevant, Has
<1>3. \A x \in Known : Relevant(x)' /\ Head(wire).id = x => Head(wire).seq <= cursor[x]
      BY <1>1, <1>2 DEF Stale, Msg
<1> QED BY <1>1, <1>2, <1>3, QuietStream DEF Has

LEMMA GetResponseStream ==
    ASSUME HandoffInv, StreamInv, HandoffInv', Keeps, GetResponse
    PROVE  StreamInv'
<1> PICK id : id = Msg.id OBVIOUS
<1>1. /\ released \in Seq(Ids) /\ acks \in Seq(Ids) /\ CommandsOK /\ pending \in Seq(Ids) /\ Distinct(pending)
      /\ acks' \in Seq(Ids) /\ released' \in Seq(Ids)
      BY DEF HandoffInv, RepliesOK, PendingOK
<1>2. /\ UNCHANGED <<receipts, writing, cursor, controller, alive, faults, replaying, replayed, peer>>
      /\ wire # <<>> /\ wire' = Tail(wire) /\ Relevant(id)
      BY DEF GetResponse, Incoming, Read
<1>3. \/ pending' = Without(pending, id) /\ UNCHANGED <<released, toOwner>>
      \/ /\ pending' = pending /\ released' = Append(released, id)
         /\ SendAcks(Connected, released', acks', inFlight, toOwner)
      BY DEF GetResponse, Take, NoAcks, SendAcks
<1>4. id \in Ids
  <2>1. PICK i \in DOMAIN pending : pending[i] = id BY <1>2 DEF Relevant, Has
  <2> QED BY <1>1, <2>1
<1>5. /\ \A c : Has(toOwner, c) => Has(toOwner', c)
      /\ \A c : Has(toOwner', c) => Has(toOwner, c) \/ c.after = 0
  <2>1. CASE toOwner' = toOwner BY <2>1 DEF Has
  <2>2. CASE SendAcks(Connected, released', acks', inFlight, toOwner) BY <1>1, <2>2, SendAcksAsksNothing
  <2> QED BY <1>3, <2>1, <2>2
<1>6. \A x : Has(pending', x) => Has(pending, x) BY <1>1, <1>3, WithoutHas
<1>7. (\A x : Has(released, x) => Has(released', x)) /\ (Has(pending', id) => Has(released', id))
  <2>1. CASE pending' = Without(pending, id) /\ UNCHANGED <<released, toOwner>>
        BY <1>1, <2>1, WithoutHas DEF Has
  <2>2. CASE released' = Append(released, id) BY <1>1, <1>4, <2>2, AppendHas
  <2> QED BY <1>3, <2>1, <2>2
<1>8. \A x : Relevant(x)' => Relevant(x) /\ x # id BY <1>6, <1>7 DEF Relevant, Has
<1>9. \A x \in Known : Relevant(x)' /\ Head(wire).id = x => Head(wire).seq <= cursor[x]
      BY <1>8 DEF Msg
<1> QED BY <1>2, <1>5, <1>6, <1>8, <1>9, QuietStream

LEMMA GetAssignmentStream ==
    ASSUME HandoffInv, StreamInv, Plain, HandoffInv', Keeps, GetAssignment
    PROVE  StreamInv'
<1> PICK id, n : id = Msg.id /\ n = Msg.seq OBVIOUS
<1>1. /\ UNCHANGED <<receipts, writing, controller, alive, faults, replaying, replayed, peer, toOwner,
                     pending, released>>
      /\ wire # <<>> /\ wire' = Tail(wire) /\ peer # "down" /\ Msg.kind = "event"
      /\ cursor' = [cursor EXCEPT ![id] = n] /\ ~Stale
      BY DEF GetAssignment, Incoming, Read, Msg
<1>2. 1 \in DOMAIN wire /\ Msg = wire[1] /\ n \in Nat /\ n # 0 /\ id \in Ids
      BY <1>1, HeadOfWire DEF RightlyNumbered, MessageOK
<1>3. cursor \in [Ids -> Numbers] BY DEF HandoffInv, PeersOK
<1>4. cursor'[id] = n /\ (\A x \in Ids : x # id => cursor'[x] = cursor[x]) BY <1>1, <1>2, <1>3
<1>5. cursor[id] < n BY <1>1, <1>2, <1>3 DEF Stale, Numbers
<1>6. \A x : Relevant(x)' = Relevant(x) BY <1>1 DEF Relevant, Has
<1>7. \A x : Asked(x)' = Asked(x) BY <1>1, SameAsks
<1>8. Known \subseteq Ids /\ \A x \in Ids : cursor[x] \in Nat BY NumbersAreNaturals
<1>9. \A x \in Ids : cursor[x] <= cursor'[x] BY <1>2, <1>4, <1>5, <1>8
<1>10. \A x \in Known : peer' # "down" /\ Relevant(x)' =>
          /\ peer # "down" /\ Relevant(x) /\ cursor[x] <= cursor'[x]
          /\ \/ wire' = wire
             \/ wire # <<>> /\ wire' = Tail(wire) /\ (Head(wire).id = x => Head(wire).seq <= cursor'[x])
          /\ peer' = "ready" => (peer = "ready" /\ (Asked(x) => Asked(x)')) \/ Asked(x)'
  <2>1. Head(wire).id = id /\ Head(wire).seq = cursor'[id] BY <1>1, <1>4, <1>2 DEF Msg
  <2>2. \A x \in Ids : Head(wire).id = x => Head(wire).seq <= cursor'[x] BY <1>2, <1>4, <2>1
  <2> QED BY <1>1, <1>6, <1>7, <1>8, <1>9, <2>2
<1>11. \A x \in Ids : \/ cursor'[x] = cursor[x] \/ cursor'[x] = 0
                      \/ \E i \in DOMAIN wire : wire[i].id = x /\ wire[i].seq = cursor'[x]
       BY <1>2, <1>4
<1>12. controller' \in {None, Controller'} \/ \A r \in Queries : ~Has(pending', r)
  <2>1. Controller' = Controller BY <1>1 DEF Controller
  <2> QED BY <1>1, <2>1 DEF StreamInv
<1> QED BY <1>1, <1>10, <1>11, <1>12, ControllerStream

LEMMA ReplayNextStream ==
    ASSUME HandoffInv, StreamInv, HandoffInv', Keeps, ReplayNext
    PROVE  StreamInv'
<1>1. /\ UNCHANGED <<receipts, writing, wire, controller, alive, faults, peer, cursor, pending, released>>
      /\ peer = "ready"
      BY DEF ReplayNext, journalVars, proxy
<1>2. CommandsOK /\ toOwner \in Seq(Commands) /\ cursor \in [Ids -> Numbers] /\ pending \in Seq(Ids)
      BY DEF HandoffInv, CommandsOK, PeersOK, PendingOK
<1>3. \A x : Relevant(x)' = Relevant(x) BY <1>1 DEF Relevant, Has
<1>4. Known \subseteq Ids /\ \A x \in Ids : cursor[x] \in Nat BY NumbersAreNaturals
<1> DEFINE left == {i \in DOMAIN pending : pending[i] \notin replayed /\ ~Has(released, pending[i])}
           first == CHOOSE i \in left : \A k \in left : i <= k
<1>5. /\ \A x : Relevant(x) => (Asked(x) => Asked(x)')
      /\ \A c \in Commands : Has(toOwner', c) => Has(toOwner, c) \/ c.after <= cursor'[c.id]
  <2>1. CASE left = {}
    <3>1. UNCHANGED <<replayed, toOwner>> BY <2>1 DEF ReplayNext
    <3>2. ASSUME NEW x, Relevant(x), Asked(x) PROVE Asked(x)'
      <4>1. PICK i \in DOMAIN pending : pending[i] = x BY <3>2 DEF Relevant, Has
      <4>2. x \in replayed BY <2>1, <3>2, <4>1 DEF Relevant
      <4> QED BY <3>1, <3>2, <4>2 DEF Asked
    <3> QED BY <3>1, <3>2 DEF Has
  <2>2. CASE left # {}
    <3>1. left \subseteq Nat BY <1>2
    <3>2. \E i \in left : \A k \in left : i <= k BY <2>2, <3>1, Least
    <3>3. first \in left
      <4> HIDE DEF left
      <4> QED BY <3>2
    <3>4. PICK id, kind : /\ replayed' = replayed \cup {id} /\ replaying' = replaying
                          /\ toOwner' = Append(toOwner, SendTo(kind, id, cursor[id]))
                          /\ id = pending[first] /\ kind \in {"request", "recover"}
      <4>1. /\ replayed' = replayed \cup {pending[first]} /\ replaying' = replaying
            /\ toOwner' = Append(toOwner, SendTo(IF pending[first] \in recovering THEN "recover" ELSE "request",
                                                 pending[first], cursor[pending[first]]))
            BY <2>2 DEF ReplayNext
      <4> HIDE DEF first
      <4> QED BY <4>1
    <3>5. id \in Ids BY <1>2, <3>3, <3>4
    <3> DEFINE c0 == SendTo(kind, id, cursor[id])
    <3>6. c0 \in Commands /\ c0.id = id /\ c0.after = cursor[id] /\ c0.kind = kind
          BY <1>2, <3>4, <3>5 DEF SendTo, Commands
    <3>7. toOwner' = Append(toOwner, c0) BY <3>4
    <3> HIDE DEF c0, first, left
    <3>8. \A c : Has(toOwner', c) <=> Has(toOwner, c) \/ c = c0 BY <1>2, <3>6, <3>7, AppendHas
    <3>9. ASSUME NEW x, Asked(x) PROVE Asked(x)'
      <4>1. CASE replaying /\ x \notin replayed /\ x # id BY <3>4, <4>1 DEF Asked
      <4>2. CASE x = id
        <5>1. PICK i \in DOMAIN toOwner' : toOwner'[i] = c0 BY <3>8 DEF Has
        <5> QED BY <3>4, <3>6, <4>2, <5>1 DEF Asked
      <4>3. CASE \E i \in DOMAIN toOwner : toOwner[i].kind \in {"request", "recover"} /\ toOwner[i].id = x
        <5>1. PICK i \in DOMAIN toOwner : toOwner[i].kind \in {"request", "recover"} /\ toOwner[i].id = x BY <4>3
        <5>2. Has(toOwner', toOwner[i]) BY <3>8 DEF Has
        <5>3. PICK k \in DOMAIN toOwner' : toOwner'[k] = toOwner[i] BY <5>2 DEF Has
        <5> QED BY <5>1, <5>3 DEF Asked
      <4> QED BY <3>9, <4>1, <4>2, <4>3 DEF Asked
    <3>10. cursor[id] <= cursor'[id] BY <1>1, <1>4, <3>5
    <3> QED BY <3>6, <3>8, <3>9, <3>10
  <2> QED BY <2>1, <2>2
<1>6. \A x \in Known : peer' # "down" /\ Relevant(x)' =>
         /\ peer # "down" /\ Relevant(x) /\ cursor[x] <= cursor'[x]
         /\ \/ wire' = wire
            \/ wire # <<>> /\ wire' = Tail(wire) /\ (Head(wire).id = x => Head(wire).seq <= cursor'[x])
         /\ peer' = "ready" => (peer = "ready" /\ (Asked(x) => Asked(x)')) \/ Asked(x)'
      BY <1>1, <1>3, <1>4, <1>5
<1>7. controller' \in {None, Controller'} \/ \A r \in Queries : ~Has(pending', r)
  <2>1. Controller' = Controller BY <1>1 DEF Controller
  <2> QED BY <1>1, <2>1 DEF StreamInv
<1> QED BY <1>1, <1>5, <1>6, <1>7, ControllerStream

\* While the link is down, nothing flows.
LEMMA DownStream ==
    ASSUME HandoffInv, StreamInv, HandoffInv', Keeps, receipts' = receipts,
           writing' = writing \/ writing' = NoWrite, wire' \in {wire, <<>>},
           \A id \in Ids : cursor'[id] = cursor[id] \/ cursor'[id] = 0,
           \A c \in Commands : Has(toOwner', c) => Has(toOwner, c), peer' = "down",
           alive' = alive \/ \A id \in Ids : Started(id) => Gone(id)',
           controller' \in {None, Controller'} \/ \A r \in Queries : ~Has(pending', r)
    PROVE  StreamInv'
<1>1. \A x \in Known : peer' # "down" /\ Relevant(x)' =>
         /\ peer # "down" /\ Relevant(x) /\ cursor[x] <= cursor'[x]
         /\ \/ wire' = wire
            \/ wire # <<>> /\ wire' = Tail(wire) /\ (Head(wire).id = x => Head(wire).seq <= cursor'[x])
         /\ peer' = "ready" => (peer = "ready" /\ (Asked(x) => Asked(x)')) \/ Asked(x)'
      OBVIOUS
<1>2. \A id \in Ids : \/ cursor'[id] = cursor[id] \/ cursor'[id] = 0
                      \/ \E i \in DOMAIN wire : wire[i].id = id /\ wire[i].seq = cursor'[id]
      OBVIOUS
<1> QED BY <1>1, <1>2, ControllerStream

LEMMA LinkDropsStream ==
    ASSUME HandoffInv, StreamInv, HandoffInv', Keeps, LinkDrops \/ AssignmentRefused \/ OwnerNotices
    PROVE  StreamInv'
<1>1. TypeOK /\ CommandsOK /\ PeersOK BY DEF HandoffInv
<1>2. /\ UNCHANGED <<receipts, cursor, alive, controller, pending>> /\ peer' = "down"
      /\ wire' \in {wire, <<>>} /\ (writing' = writing \/ writing' = NoWrite)
      BY DEF LinkDrops, AssignmentRefused, OwnerNotices, Lost, Disconnect, proxy
<1>3. \A c \in Commands : Has(toOwner', c) => Has(toOwner, c)
  <2>1. CASE \E n \in 0 .. Len(toOwner) : Lost(n) BY <1>1, <2>1, LostOK
  <2>2. CASE toOwner' = <<>> BY <2>2, NothingHas
  <2> QED BY <2>1, <2>2 DEF LinkDrops, AssignmentRefused, OwnerNotices
<1>4. Controller' = Controller
  <2>1. faults'.crashes = faults.crashes BY <1>1 DEF LinkDrops, AssignmentRefused, OwnerNotices, PeersOK
  <2> QED BY <2>1 DEF Controller
<1>5. controller' \in {None, Controller'} \/ \A r \in Queries : ~Has(pending', r)
      BY <1>2, <1>4 DEF StreamInv
<1> QED BY <1>2, <1>3, <1>5, DownStream

LEMMA ControllerRestartsStream ==
    ASSUME HandoffInv, StreamInv, HandoffInv', Keeps, ControllerRestarts
    PROVE  StreamInv'
<1>1. TypeOK /\ CommandsOK /\ PeersOK BY DEF HandoffInv
<1>2. /\ receipts' = receipts /\ writing' = writing /\ wire' \in {wire, <<>>} /\ peer' = "down"
      /\ \A c \in Commands : Has(toOwner', c) => Has(toOwner, c)
  <2>1. CASE peer = "down" /\ UNCHANGED <<journalVars, peer, toOwner>> BY <2>1 DEF journalVars
  <2>2. CASE \E n \in 0 .. Len(toOwner) : Lost(n) BY <1>1, <2>2, LostOK DEF Lost
  <2> QED BY <2>1, <2>2 DEF ControllerRestarts
<1>3. (\A id \in Ids : cursor'[id] = 0) /\ alive' = alive BY DEF ControllerRestarts
<1>4. \A r \in Queries : ~Has(pending', r)
  <2> DEFINE running == {j \in Jobs : row[j] = "running"}
  <2>1. pending' = SetToSeq(running) BY DEF ControllerRestarts
  <2>2. IsFiniteSet(running) BY IdKinds, FS_Subset, JournalAssumption
  <2>3. running \subseteq Jobs OBVIOUS
  <2> HIDE DEF running
  <2>4. \A x : Has(pending', x) => x \in running BY <2>1, <2>2, SetToSeqHas
  <2> QED BY <2>3, <2>4, IdKinds
<1> QED BY <1>2, <1>3, <1>4, DownStream

LEMMA SeeExitStream ==
    ASSUME HandoffInv, StreamInv, HandoffInv', Keeps, SeeExit
    PROVE  StreamInv'
<1>1. /\ UNCHANGED <<receipts, writing, wire, controller, cursor, toOwner>> /\ peer' = "down"
      /\ pending' = <<>>
      BY DEF SeeExit, ForgottenAll, journalVars
<1>2. Known = {} /\ toOwner = <<>> BY DEF SeeExit, HandoffInv, PeersOK
<1>3. ASSUME NEW id \in Ids, Started(id) PROVE Gone(id)'
  <2>1. Started(id)' BY <1>3 DEF Keeps
  <2>2. ~Relevant(id)' BY <1>1, NothingHas DEF Relevant, Has
  <2>3. ~Asks(id)' BY <1>1, <1>2, NothingHas DEF Asks, Has
  <2>4. id \notin Known' BY <1>1, <1>2 DEF Known
  <2> QED BY <2>1, <2>2, <2>3, <2>4 DEF Gone, Closed, Done
<1>4. \A r \in Queries : ~Has(pending', r) BY <1>1, NothingHas DEF Has
<1> QED BY <1>1, <1>3, <1>4, DownStream DEF Has

LEMMA OwnerExitsStream ==
    ASSUME HandoffInv, StreamInv, HandoffInv', Keeps, OwnerExits
    PROVE  StreamInv'
<1>1. /\ receipts' = Empty /\ writing' = NoWrite /\ wire' = <<>> /\ toOwner' = <<>> /\ controller' = None
      /\ cursor' = cursor /\ alive /\ alive' = FALSE
      BY DEF OwnerExits, proxy
<1>2. Known' = {} BY <1>1 DEF Known, Empty
<1>3. ASSUME NEW id \in Ids PROVE Gone(id)' \/ (~alive' /\ Started(id)') \/ Unnumbered(id)'
  <2>1. CASE Started(id) BY <1>1, <2>1 DEF Keeps
  <2>2. CASE ~Started(id)
    <3>1. id \notin Known BY <2>2 DEF HandoffInv, EntriesOK
    <3>2. Unnumbered(id) BY <1>1, <2>2, <3>1 DEF StreamInv, Gone, Closed, Done
    <3>3. Within(0, NoWrite, <<>>, id) BY JournalAssumption DEF Within, NoWrite
    <3>4. After(<<>>, id, 0) BY NothingHas DEF After
    <3> QED BY <1>1, <3>2, <3>3, <3>4 DEF Unnumbered
  <2> QED BY <2>1, <2>2
<1> QED BY <1>1, <1>2, <1>3 DEF StreamInv

\* connect() mutes every receipt, so nothing is written of it before it is asked.
LEMMA MutedFlows ==
    ASSUME NEW r, Sound(r), r.sent = MaxSafe, NEW c \in Nat, NEW id \in Ids, NEW w \in Seq(WireMessages),
           \A i \in DOMAIN w : w[i].id = None
    PROVE  Flows(r, c, NoWrite, w, id)
<1>1. id # None BY JournalAssumption
<1>2. InOrder(r, c, w, id) BY <1>1 DEF InOrder
<1>3. NoWrite.id # id BY <1>1 DEF NoWrite
<1>4. r.sent <= r.sequence => Written(r, c, r.sent, w, id)
  <2> SUFFICES ASSUME r.sent <= r.sequence, NEW s \in Stored(r), c < s, s <= r.sent PROVE FALSE
      BY DEF Written
  <2>1. r.sequence = 0 BY JournalAssumption DEF Sound
  <2> QED BY <2>1 DEF Sound
<1> QED BY <1>2, <1>3, <1>4 DEF Flows

LEMMA EstablishStream ==
    ASSUME HandoffInv, StreamInv, HandoffInv', Keeps, Establish
    PROVE  StreamInv'
<1>1. TypeOK /\ ReceiptsOK /\ EntriesOK /\ PeersOK /\ TypeOK' BY DEF HandoffInv, TypeOK
<1> DEFINE ready == Message("ready", None, None, 0, {}, None)
<1>2. Connect(Controller, <<ready>>) BY DEF Establish
<1>3. /\ UNCHANGED <<pending, released, cursor, alive, faults, row, query>>
      /\ peer' = "open" /\ toOwner' = <<>> /\ alive
      BY DEF Establish, durable, proxy
<1>4. Pump(NoWrite, <<ready>>)
  <2>1. \A c, greeting : Connect(c, greeting) => Pump(NoWrite, greeting) BY Zenon DEF Connect
  <2> HIDE DEF ready
  <2> QED BY <1>2, <2>1
<1>5. /\ controller' = Controller /\ DOMAIN receipts' = Known \ Discarded(Controller)
      /\ \A id \in DOMAIN receipts' :
            receipts'[id] = [receipts[id] EXCEPT !.sent = MaxSafe,
               !.abandoned = receipts[id].abandoned \/ (Replaced(Controller) /\ ~receipts[id].retained)]
  <2>1. receipts' = [id \in Known \ Discarded(Controller) |->
              [receipts[id] EXCEPT !.sent = MaxSafe,
                 !.abandoned = @ \/ (Replaced(Controller) /\ ~receipts[id].retained)]]
        BY <1>2 DEF Connect
  <2>2. controller' = Controller BY <1>2 DEF Connect
  <2> QED BY <2>1, <2>2
<1>6. ready \in WireMessages /\ ready.id = None BY JournalAssumption DEF Message, WireMessages, Numbers
<1> HIDE DEF ready
<1>7. <<ready>> \in Seq(WireMessages) /\ \A i \in DOMAIN <<ready>> : <<ready>>[i].id = None BY <1>6
<1>8. \A c : ~Has(toOwner', c) BY <1>3, NothingHas
<1>9. \A id, n : After(toOwner', id, n) BY <1>8 DEF After
<1>10. ASSUME NEW id \in DOMAIN receipts'
       PROVE  /\ id \in Known /\ id \in Ids /\ Sound(receipts'[id])
              /\ receipts'[id].sent = MaxSafe /\ receipts'[id].sequence = receipts[id].sequence
              /\ Unwanted(id)' => Unwanted(id) \/ (Replaced(Controller) /\ ~receipts[id].retained)
  <2>1. id \in Known /\ id \in Ids BY <1>1, <1>5, <1>10 DEF ReceiptsOK
  <2> DEFINE r == receipts[id]
             q == receipts'[id]
  <2>2. IsReceipt(r) /\ Sound(r) BY <1>1, <2>1 DEF ReceiptsOK, StreamInv, Bounded
  <2>3. q = [r EXCEPT !.sent = MaxSafe, !.abandoned = r.abandoned \/ (Replaced(Controller) /\ ~r.retained)]
        BY <1>5, <1>10
  <2> HIDE DEF r, q
  <2>4. /\ q.sent = MaxSafe /\ q.sequence = r.sequence /\ q.events = r.events /\ q.terminalSeq = r.terminalSeq
        /\ q.terminal = r.terminal /\ q.acknowledged = r.acknowledged
        /\ q.abandoned => r.abandoned \/ (Replaced(Controller) /\ ~r.retained)
        BY <2>2, <2>3 DEF IsReceipt
  <2>5. Stored(q) = Stored(r) BY <2>4 DEF Stored
  <2>6. Sound(q) BY <2>2, <2>4, <2>5, JournalAssumption DEF Sound
  <2> QED BY <2>1, <2>4, <2>6 DEF Unwanted, r, q
<1>11. ASSUME NEW id \in Known, Replaced(Controller), ~receipts[id].retained PROVE Closed(id)'
  <2>1. id \in Queries /\ id \in Ids BY <1>1, <1>11 DEF ReceiptsOK, Queries
  <2>2. ~Has(pending', id) BY <1>3, <1>11, <2>1 DEF StreamInv, Replaced
  <2>3. Started(id)' BY <1>1, <1>11, <2>1 DEF EntriesOK, Keeps
  <2>4. ~Asks(id)' BY <1>8 DEF Asks, Has
  <2> QED BY <2>2, <2>3, <2>4 DEF Closed, Done, Relevant, Has
<1>12. \A id \in Ids : (Closed(id) => Closed(id)') /\ (Gone(id) => Gone(id)') BY GoneStays
<1>13. (\A m \in WireMessages : Has(aux', m) => MessageOK(m)') BY DEF HandoffInv, MessagesOK, Has
<1>14. ASSUME NEW id \in Ids
       PROVE  /\ id \in DOMAIN receipts' =>
                    /\ Within(receipts'[id].sequence, NoWrite, <<ready>>, id)
                           => Within(receipts'[id].sequence, writing', wire', id)
                    /\ \A c \in Nat : Flows(receipts'[id], c, NoWrite, <<ready>>, id)
                           => Flows(receipts'[id], c, writing', wire', id)
              /\ id \notin DOMAIN receipts' =>
                    (Within(0, NoWrite, <<ready>>, id) => Within(0, writing', wire', id))
       BY <1>1, <1>4, <1>7, <1>10, <1>13, PumpFlows
<1>15. \A id \in Ids : \A n : Within(n, NoWrite, <<ready>>, id)
  <2>1. \A id \in Ids : id # None BY JournalAssumption
  <2> QED BY <1>7, <2>1 DEF Within, NoWrite
<1>16. ASSUME NEW id \in Known' PROVE Bounded(id)' /\ Flowing(id)' /\ (Unwanted(id)' => Closed(id)')
  <2>1. id \in DOMAIN receipts' /\ id \in Known /\ id \in Ids BY <1>10, <1>16 DEF Known
  <2> DEFINE q == receipts'[id]
  <2>2. Sound(q) /\ q.sent = MaxSafe /\ q.sequence = receipts[id].sequence BY <1>10, <2>1
  <2>3. cursor[id] \in Nat /\ cursor[id] <= q.sequence
        BY <2>1, <2>2, NumbersAreNaturals DEF StreamInv, Bounded
  <2>4. Within(q.sequence, writing', wire', id) BY <1>14, <1>15, <2>1
  <2>5. Flows(q, cursor[id], writing', wire', id)
    <3>1. Flows(q, cursor[id], NoWrite, <<ready>>, id) BY <1>7, <2>1, <2>2, <2>3, MutedFlows
    <3> QED BY <1>14, <2>1, <2>3, <3>1
  <2>6. Unwanted(id)' => Closed(id)' BY <1>10, <1>11, <1>12, <2>1 DEF StreamInv
  <2>7. peer' # "ready" BY <1>3
  <2> HIDE DEF q
  <2> QED BY <1>3, <1>9, <2>2, <2>3, <2>4, <2>5, <2>6, <2>7 DEF Bounded, Flowing, q
<1>17. ASSUME NEW id \in Ids, id \notin Known' PROVE Gone(id)' \/ Unnumbered(id)'
  <2>1. CASE id \in Known
    <3>1. id \in Discarded(Controller) BY <1>5, <1>17, <2>1 DEF Known
    <3>2. Closed(id)' BY <1>11, <2>1, <3>1 DEF Discarded
    <3> QED BY <1>17, <3>2 DEF Gone
  <2>2. CASE Gone(id) BY <1>12, <2>2
  <2>3. CASE Unnumbered(id)
    <3>1. id \notin DOMAIN receipts' BY <1>17 DEF Known
    <3>2. Within(0, writing', wire', id) BY <1>14, <1>15, <3>1
    <3> QED BY <1>3, <1>9, <2>3, <3>2 DEF Unnumbered
  <2> QED BY <1>3, <2>1, <2>2, <2>3 DEF StreamInv
<1>18. controller' = Controller'
  <2>1. Controller' = Controller BY <1>3 DEF Controller
  <2> QED BY <1>5, <2>1
<1> QED BY <1>16, <1>17, <1>18 DEF StreamInv

LEMMA StreamInit == HandoffInit => Plain /\ StreamInv
<1> SUFFICES ASSUME HandoffInit PROVE Plain /\ StreamInv OBVIOUS
<1>1. /\ receipts = Empty /\ writing = NoWrite /\ wire = <<>> /\ toOwner = <<>> /\ controller = None
      /\ cursor = [id \in Ids |-> 0]
      BY DEF HandoffInit, JournalInit
<1>2. Known = {} BY <1>1 DEF Known, Empty
<1>3. Plain BY <1>1, NothingHas DEF Plain
<1>4. ASSUME NEW id \in Ids PROVE Unnumbered(id)
  <2>1. Within(0, NoWrite, <<>>, id) BY JournalAssumption DEF Within, NoWrite
  <2>2. After(<<>>, id, 0) BY NothingHas DEF After
  <2> QED BY <1>1, <2>1, <2>2 DEF Unnumbered
<1> QED BY <1>1, <1>2, <1>3, <1>4 DEF StreamInv

LEMMA StreamStep ==
    HandoffInv /\ Plain /\ StreamInv /\ [HandoffNext]_handoffVars /\ HandoffInv' /\ Keeps => StreamInv'
<1> SUFFICES ASSUME HandoffInv, Plain, StreamInv, [HandoffNext]_handoffVars, HandoffInv', Keeps
             PROVE  StreamInv'
    OBVIOUS
<1>1. ASSUME NEW j \in Jobs, StartJob(j) \/ Commit(j) \/ Assign(j) PROVE StreamInv'
      BY <1>1, StartJobStream, CommitStream, AssignStream
<1>2. ASSUME NEW r \in Queries, StartQuery(r) PROVE StreamInv' BY <1>2, StartQueryStream
<1>3. ASSUME NEW id \in Ids, NEW o \in Outcomes, Finish(id, o) PROVE StreamInv' BY <1>3, FinishStream
<1>4. CASE RetryAcks BY <1>4, RetryAcksStream
<1>5. CASE ControllerGets
      BY <1>5, GetReadyStream, GetAcknowledgedStream, GetAssignmentStream, GetResponseStream, IgnoreMessageStream
      DEF ControllerGets
<1>6. CASE ReplayNext BY <1>6, ReplayNextStream
<1>7. CASE OwnerHandles BY <1>7, OwnerAdmitsStream, OwnerRecoversStream, OwnerAcknowledgesStream DEF OwnerHandles
<1>8. CASE OwnerWrites BY <1>8, OwnerWritesStream
<1>9. CASE Establish BY <1>9, EstablishStream
<1>10. CASE LinkDrops \/ AssignmentRefused \/ OwnerNotices BY <1>10, LinkDropsStream
<1>11. CASE ControllerRestarts BY <1>11, ControllerRestartsStream
<1>12. CASE OwnerExits BY <1>12, OwnerExitsStream
<1>13. CASE SeeExit BY <1>13, SeeExitStream
<1>14. CASE UNCHANGED handoffVars
  <2>1. /\ UNCHANGED <<receipts, writing, cursor, controller, alive, faults, replaying, replayed, peer, wire,
                       pending, released, toOwner>>
        BY <1>14 DEF handoffVars, journalVars, proxy, link
  <2>2. \A x : Relevant(x)' = Relevant(x) BY <2>1 DEF Relevant, Has
  <2> QED BY <2>1, <2>2, QuietStream DEF Has
<1> QED BY <1>1, <1>2, <1>3, <1>4, <1>5, <1>6, <1>7, <1>8, <1>9, <1>10, <1>11, <1>12, <1>13, <1>14
        DEF HandoffNext

LEMMA StreamInvariant == HandoffSpec => [](HandoffInv /\ Plain /\ StreamInv)
<1> DEFINE Inv == HandoffInv /\ Plain /\ StreamInv
<1>1. HandoffInit => Inv BY HandoffInitOK, StreamInit
<1>2. Inv /\ [HandoffNext]_handoffVars => Inv' BY HandoffStep, PlainStep, StreamStep
<1> QED BY <1>1, <1>2, PTL DEF HandoffSpec

\* Whatever is lost, replayed, recovered or retried, a request that waits on a
\* ready link and has not asked again has every stored event above its cursor on
\* the wire, in order, or ahead of what the owner has written (the cursor that
\* connect(), admit(), recover() and the callback of a write all move).
THEOREM NothingIsSkipped == HandoffSpec => []NothingSkipped
<1>1. HandoffInv /\ Plain /\ StreamInv => NothingSkipped
  <2> SUFFICES ASSUME HandoffInv, StreamInv, NEW id \in Known,
                      peer = "ready", linked, Relevant(id), ~Asked(id),
                      NEW s \in Stored(receipts[id]), s > cursor[id],
                      ~(s > receipts[id].sent /\ ~(writing.id = id /\ writing.seq = s))
               PROVE  /\ OnWire(id, s) # {}
                      /\ \A t \in Stored(receipts[id]) : t > s =>
                            \A i \in OnWire(id, t) : \E h \in OnWire(id, s) : h < i
      BY DEF NothingSkipped, Stored
  <2> DEFINE r == receipts[id]
             c == cursor[id]
  <2>1. Sound(r) /\ Flows(r, c, writing, wire, id) /\ (r.sent > r.sequence => Asked(id))
        BY DEF StreamInv, Bounded, Flowing
  <2>2. c \in Nat /\ writing.seq \in Nat /\ s \in Nat /\ r.sent \in Nat /\ r.sequence \in Nat
        BY <2>1, NumbersAreNaturals DEF Sound
  <2>3. s \in Stored(r) /\ c < s /\ (s <= r.sent \/ (writing.id = id /\ writing.seq = s)) BY <2>2
  <2>4. r.sent <= r.sequence BY <2>1, <2>2
  <2> HIDE DEF r, c
  <2>5. Holds(wire, id, s) BY <2>1, <2>2, <2>3, <2>4 DEF Flows, Written
  <2>6. \A i \in DOMAIN wire : wire[i].id = id /\ s < wire[i].seq =>
           \E h \in DOMAIN wire : h < i /\ wire[h].id = id /\ wire[h].seq = s
        BY <2>1, <2>3 DEF Flows, InOrder
  <2>7. OnWire(id, s) # {} BY <2>5 DEF Holds, OnWire
  <2>8. ASSUME NEW t, t > s, NEW i \in OnWire(id, t) PROVE \E h \in OnWire(id, s) : h < i
    <3>1. i \in DOMAIN wire /\ wire[i].id = id /\ wire[i].seq = t /\ wire[i].seq \in Nat
          BY NumbersAreNaturals DEF OnWire
    <3>2. s < wire[i].seq BY <2>2, <2>8, <3>1
    <3> QED BY <2>6, <3>1, <3>2 DEF OnWire
  <2> QED BY <2>7, <2>8
<1> QED BY <1>1, StreamInvariant, PTL
=============================================================================
