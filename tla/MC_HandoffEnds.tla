--------------------------- MODULE MC_HandoffEnds ---------------------------
(* ExecutionHandoff under fairness: a Job under every fault, and two queries   *)
(* on a link that may drop.  Every behaviour is one of these two loads.        *)
EXTENDS ExecutionHandoff

CONSTANTS j1, q1, q2, c1, c2

VARIABLE load

OneJob == {j1}
OneJobLaneOf == [id \in OneJob |-> "execution"]
Roomy == [execution |-> 2, metadata |-> 1]
TwoSessions == <<c1, c2>>

Query == INSTANCE ExecutionHandoff
    WITH Ids <- {q1, q2}, Retained <- {}, LaneOf <- [id \in {q1, q2} |-> "metadata"],
         Capacity <- [execution |-> 0, metadata |-> 2], Session <- <<c1>>,
         AuxCapacity <- 1, MaxCrashes <- 0, MaxExits <- 0

Init ==
    \/ load = "job" /\ HandoffInit
    \/ load = "queries" /\ Query!HandoffInit

vars == <<load, handoffVars>>
OfJob(A) == load = "job" /\ A /\ UNCHANGED load
OfQueries(A) == load = "queries" /\ A /\ UNCHANGED load

Next == OfJob(HandoffNext) \/ OfQueries(Query!HandoffNext)

\* The fairness of ExecutionHandoff, duty by duty, for the load there is.
Duty(A, B) == OfJob(A) \/ OfQueries(B)
Spec ==
    /\ Init /\ [][Next]_vars
    /\ WF_vars(Duty(ControllerGets, Query!ControllerGets)) /\ WF_vars(Duty(ReplayNext, Query!ReplayNext))
    /\ WF_vars(Duty(OwnerHandles, Query!OwnerHandles)) /\ WF_vars(Duty(OwnerWrites, Query!OwnerWrites))
    /\ WF_vars(Duty(Establish, Query!Establish)) /\ WF_vars(Duty(RetryAcks, Query!RetryAcks))
    /\ WF_vars(Duty(SeeExit, \E o \in Outcomes : Query!Finish(q1, o)))
    /\ WF_vars(Duty(Commit(j1), \E o \in Outcomes : Query!Finish(q2, o)))
    /\ WF_vars(OfJob(\E o \in Outcomes : Finish(j1, o)))

\* A query that was sent is answered or dies with its controller: replies,
\* their releases and the window they share never wait for each other
\* (executionServiceProcess.ts:801).  The two queries are interchangeable.
QueryEnded == Has(pending, q1) ~> ~Has(pending, q1)
=============================================================================
