--------------------------- MODULE MC_JournalLink ---------------------------
(* Two loads of JournalScheduling: one turn that asks, resolves and re-asks    *)
(* questions, and two turns that keep producing and share the link with        *)
(* replies and heartbeats.                                                     *)
EXTENDS JournalScheduling, TLC

CONSTANTS a, b, n1

VARIABLE load   \* "questions" or "peers"

linkVars == <<schedulingVars, load>>

Turns == {a, b}
TurnLaneOf == [id \in Turns |-> "execution"]
BothFit == [execution |-> 2]
QuestionSymmetry == Permutations(Interactions)
PeerSequences == 2   \* what a producing turn stores, at most

\* The load of the questions has one turn and no auxiliary messages.
Asking ==
    \/ Subscribe(a) /\ aux' = <<>>
    \/ Emit(a)
    \/ Settle(a)
    \/ Link

\* Turns that are subscribed and only produce: the load the comment at
\* executionJournal.ts:222 is about.
Producing ==
    \/ \E id \in Turns, p \in Prints : Admit(id, 0, p)
    \/ \E id \in Turns :
          /\ id \in Known => receipts[id].sequence < PeerSequences
          /\ \/ SendProgress(id, FALSE)
             \/ \E o \in Outcomes : SendResponse(id, o, FALSE)
    \/ \E id \in Turns : Acknowledge(id)
    \/ SendNotice(n1)
    \/ ReceiptWritten \/ AuxWritten \/ PumpLater \/ PeerReads
    \/ ~linked /\ \E x \in Controllers : Connect(x, <<>>)

Init == load \in {"questions", "peers"} /\ SchedulingInit

Next ==
    /\ \/ load = "questions" /\ Asking
       \/ load = "peers" /\ Producing
    /\ Counted
    /\ UNCHANGED load

Spec == Init /\ [][Next]_linkVars
=============================================================================
