------------------------ MODULE MC_ExecutionHandoff ------------------------
(* Instances of ExecutionHandoff for TLC. *)
EXTENDS ExecutionHandoff

CONSTANTS j1, j2, q1, c1, c2

JobIds == {j1, j2}
MixedIds == {j1, q1}
JobLaneOf == [id \in JobIds |-> "execution"]
MixedLaneOf == [id \in MixedIds |-> IF id = j1 THEN "execution" ELSE "metadata"]
Roomy == [execution |-> 2, metadata |-> 1]
OneSlot == [execution |-> 1, metadata |-> 1]
OneSession == <<c1>>
TwoSessions == <<c1, c2>>
=============================================================================
