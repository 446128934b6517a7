------------------------- MODULE JournalScheduling -------------------------
(***************************************************************************)
(* ExecutionJournal with two counters of history that say how long a       *)
(* receipt, and an auxiliary message, have been waiting for the link while *)
(* pump() wrote something else.  They restrict nothing: every step of the  *)
(* journal is a step here.                                                 *)
(***************************************************************************)
EXTENDS ExecutionJournal

VARIABLES
    passed,     \* per receipt: writes of other receipts begun while it waits
    auxPassed   \* writes of receipts begun while an auxiliary message waits

schedulingVars == <<journalVars, passed, auxPassed>>

ReceiptKinds == {"event", "response"}
Serves(id) == writing.kind \in ReceiptKinds /\ writing.id = id

\* A receipt waits while it has something for the link and is not the one that
\* is being written; an auxiliary message, while none is being written.
Awaits(id) == linked /\ id \in Known /\ ~Serves(id) /\ Unsent(id) # {}
AuxAwaits == aux # <<>> /\ writing.kind \notin AuxKinds

\* A write of a receipt begins: a new connection mutes every receipt, so none
\* begins in place of a write in flight.
Begun == IF writing = NoWrite /\ writing'.kind \in ReceiptKinds THEN 1 ELSE 0

Counted ==
    /\ passed' = [id \in Ids |-> IF Awaits(id)' THEN passed[id] + Begun ELSE 0]
    /\ auxPassed' = IF AuxAwaits' THEN auxPassed + Begun ELSE 0

SchedulingInit == JournalInit /\ passed = [id \in Ids |-> 0] /\ auxPassed = 0
SchedulingNext == JournalNext /\ Counted
SchedulingSpec == SchedulingInit /\ [][SchedulingNext]_schedulingVars

\* A receipt with something to send is passed by each other receipt at most
\* once: a noisy turn cannot starve its peers (pump(), 222-224).
PeersTakeTurns == \A id \in Ids : passed[id] < Cardinality(Ids)

\* An error reply, an acknowledgement reply or an observation waits for at most
\* a burst of receipts, however many turns are producing (receiptBurst, 201).
AuxiliaryIsServed == auxPassed <= BurstLimit
=============================================================================
