------------------------ MODULE MC_ExecutionJournal ------------------------
(* An instance of ExecutionJournal for TLC: a Job turn and an unretained turn *)
(* compete for one slot.                                                      *)
EXTENDS ExecutionJournal, TLC

CONSTANTS j1, r1

PairIds == {j1, r1}
PairLaneOf == [id \in PairIds |-> "execution"]
OneSlot == [execution |-> 1]
ReceiptSymmetry == Permutations(Controllers) \cup Permutations(Prints)
=============================================================================
