--------------------------- MODULE ScopeFairQueue ---------------------------
(***************************************************************************)
(* The bounded round-robin queue of src/src/scopeFairQueue.ts.  The Job    *)
(* registry defers the progress projections of its Jobs through it, one    *)
(* scope per project; an event-loop callback runs one item at a time.      *)
(*                                                                         *)
(* An item is the number of the offer that brought it.  offered and        *)
(* overtaken are history: they are not in the code.                        *)
(***************************************************************************)
EXTENDS Integers, Sequences, FiniteSets

CONSTANTS
    Scopes,            \* scope identities: project keys
    Capacity,          \* options.capacity
    PerScopeCapacity,  \* options.perScopeCapacity
    MaxOffers          \* bound on the offers made

ASSUME QueueAssumption ==
    /\ IsFiniteSet(Scopes)
    /\ Capacity \in Nat \ {0}
    /\ PerScopeCapacity \in 1 .. Capacity
    /\ MaxOffers \in Nat

VARIABLES
    queues,     \* scope -> its items, oldest first; only the scopes that have a queue
    order,      \* the scopes in the order of their turns
    queued, processed, dropped,
    scheduled,  \* a callback is pending
    closed,
    offered,    \* offers made to the open queue
    overtaken   \* <<s, t>>: t had a turn since s, which waits, began to wait

queueVars == <<queues, order, queued, processed, dropped, scheduled, closed, offered, overtaken>>

-----------------------------------------------------------------------------
Present == DOMAIN queues
Elements(q) == {q[i] : i \in DOMAIN q}
Held == UNION {Elements(queues[s]) : s \in Present}
Longest(f) == {s \in DOMAIN f : Len(f[s]) > 1 /\ \A t \in DOMAIN f : Len(f[t]) <= Len(f[s])}
\* queue.filter(...): what is kept of q.
Filtered(q, S) ==
    LET kept[n \in 0 .. Len(q)] ==
            IF n = 0 THEN <<>> ELSE IF q[n] \in S THEN Append(kept[n - 1], q[n]) ELSE kept[n - 1]
    IN  kept
Keep(q, S) == Filtered(q, S)[Len(q)]

\* Only the waiting scopes have been overtaken.
StillWaiting(pairs, present) == {p \in pairs : p[1] \in present}

QueueInit ==
    /\ queues = [s \in {} |-> <<>>]
    /\ order = <<>>
    /\ queued = 0 /\ processed = 0 /\ dropped = 0
    /\ scheduled = FALSE
    /\ closed = FALSE
    /\ offered = 0
    /\ overtaken = {}

(* enqueue(scopeId, value) *)

\* The queues once the scope has one, and the turns once it has a place.
With(s) == [t \in Present \cup {s} |-> IF t \in Present THEN queues[t] ELSE <<>>]
PlacedAgain(s) == Append(order, s)
Placed(s) == IF s \in Present THEN order ELSE Append(order, s)

Offered == ~closed /\ offered < MaxOffers /\ offered' = offered + 1
OwnFull(s) == Len(With(s)[s]) >= PerScopeCapacity
Full(s) == ~OwnFull(s) /\ queued >= Capacity

\* The item goes last in its scope; discarded: how many made room for it.
Accept(s, base, discarded) ==
    /\ queues' = [base EXCEPT ![s] = Append(@, offered + 1)]
    /\ order' = Placed(s)
    /\ dropped' = dropped + discarded
    /\ queued' = queued - discarded + 1
    /\ scheduled' = TRUE
    /\ UNCHANGED <<processed, closed, overtaken>>

AcceptDirectly(s) == ~OwnFull(s) /\ ~Full(s) /\ Accept(s, With(s), 0)

\* A scope at its own bound replaces its oldest item.
ReplaceOwnOldest(s) == OwnFull(s) /\ Accept(s, [With(s) EXCEPT ![s] = Tail(@)], 1)

\* evictFromNoisiestScope(): the iteration order of the Map settles a tie,
\* which is left open here.
EvictOldest(s) ==
    /\ Full(s)
    /\ \E noisy \in Longest(With(s)) : Accept(s, [With(s) EXCEPT ![noisy] = Tail(@)], 1)

Refuse(s) ==
    /\ Full(s)
    /\ Longest(With(s)) = {}
    /\ dropped' = dropped + 1
    /\ UNCHANGED <<queues, order, queued, processed, scheduled, closed, overtaken>>

Enqueue(s) ==
    Offered /\ (AcceptDirectly(s) \/ ReplaceOwnOldest(s) \/ EvictOldest(s) \/ Refuse(s))

(* remove(predicate): gone are the items the predicate holds for *)
Remove(gone) ==
    LET staying == {s \in Present : Elements(queues[s]) \ gone # {}}
        removed == Cardinality(Held \cap gone)
    IN  /\ queues' = [s \in staying |-> Keep(queues[s], Held \ gone)]
        /\ order' = Keep(order, staying)
        /\ queued' = queued - removed
        /\ dropped' = dropped + removed
        /\ overtaken' = StillWaiting(overtaken, staying)
        /\ UNCHANGED <<processed, scheduled, closed, offered>>

(* close() *)
Close ==
    /\ ~closed
    /\ closed' = TRUE
    /\ scheduled' = FALSE
    /\ dropped' = dropped + queued
    /\ queued' = 0
    /\ queues' = [s \in {} |-> <<>>]
    /\ order' = <<>>
    /\ overtaken' = {}
    /\ UNCHANGED <<processed, offered>>

(* The callback of setImmediate: runOne() and the next schedule() *)
TurnsKept(s, rest) == IF rest = <<>> THEN Tail(order) ELSE order
Turns(s, rest) == IF rest = <<>> THEN Tail(order) ELSE Append(Tail(order), s)

RunTurn(s) ==
    LET rest == Tail(queues[s])
        left == IF rest = <<>> THEN Present \ {s} ELSE Present
    IN  /\ queues' = [t \in left |-> IF t = s THEN rest ELSE queues[t]]
        /\ order' = Turns(s, rest)
        /\ queued' = queued - 1
        /\ processed' = processed + 1
        /\ overtaken' = StillWaiting(overtaken, Present \ {s})
                        \cup {<<t, s>> : t \in Present \ {s}}

RunOne ==
    /\ scheduled
    /\ IF order = <<>>
       THEN UNCHANGED <<queues, order, queued, processed, overtaken>>
       ELSE RunTurn(Head(order))
    /\ scheduled' = (queued' > 0)
    /\ UNCHANGED <<dropped, closed, offered>>

QueueNext ==
    \/ \E s \in Scopes : Enqueue(s)
    \/ \E gone \in SUBSET Held : gone # {} /\ Remove(gone)
    \/ Close
    \/ RunOne

QueueSpec == QueueInit /\ [][QueueNext]_queueVars

-----------------------------------------------------------------------------
\* The scopes that have a turn coming are exactly those with items, once each,
\* and while there are items a callback is pending: no item is stranded by an
\* eviction, a removal or the last item of a turn (runOne's dead branch, lines
\* 122-126, relies on it).
NothingStranded ==
    /\ Elements(order) = Present
    /\ \A i, j \in DOMAIN order : order[i] = order[j] => i = j
    /\ \A s \in Present : queues[s] # <<>>
    /\ queued > 0 => scheduled

\* Between two turns of a waiting scope no other scope has two turns, whatever
\* is offered, evicted or removed in between ("bounded round-robin work").
NoSecondTurn ==
    order # <<>> => \A s \in Scopes : <<s, Head(order)>> \notin overtaken
=============================================================================
