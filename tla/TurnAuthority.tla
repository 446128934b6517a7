--------------------------- MODULE TurnAuthority ---------------------------
(***************************************************************************)
(* What the state owner and the execution owner promise together about a   *)
(* Job turn, without links, receipts or acknowledgements: a turn begins    *)
(* at most once and only while its row is running, and its row ends with   *)
(* the turn's exact outcome, or with a failure when there is no turn that  *)
(* could still have one.  (docs/execution-authority-and-evidence.md, "Path *)
(* inventory"; the code that keeps the promise is ExecutionHandoff.)       *)
(***************************************************************************)
CONSTANTS
    Jobs,       \* Job ids
    Results,    \* outcomes an execution settles with
    Failures    \* outcomes the Bridge records itself

VARIABLES
    row,        \* the durable Job row
    turn        \* the turn, as the App Server sees it

TurnInit ==
    /\ row = [j \in Jobs |-> "absent"]
    /\ turn = [j \in Jobs |-> "none"]

Admit(j) ==
    /\ row[j] = "absent"
    /\ row' = [row EXCEPT ![j] = "running"]
    /\ UNCHANGED turn

Begin(j) ==
    /\ row[j] = "running" /\ turn[j] = "none"
    /\ turn' = [turn EXCEPT ![j] = "running"]
    /\ UNCHANGED row

Finish(j, o) ==
    /\ turn[j] = "running"
    /\ turn' = [turn EXCEPT ![j] = o]
    /\ UNCHANGED row

Record(j) ==
    /\ row[j] = "running" /\ turn[j] \in Results
    /\ row' = [row EXCEPT ![j] = turn[j]]
    /\ UNCHANGED turn

RecordFailure(j, f) ==
    /\ row[j] = "running" /\ turn[j] \in {"none", "lost"}
    /\ row' = [row EXCEPT ![j] = f]
    /\ UNCHANGED turn

\* A process that holds turns or their results ends: what is not recorded yet
\* may be lost.  Nothing else makes a turn end without an outcome.
Lose(S) ==
    /\ \A j \in S : row[j] = "running" /\ turn[j] # "none"
    /\ turn' = [j \in Jobs |-> IF j \in S THEN "lost" ELSE turn[j]]
    /\ UNCHANGED row

TurnNext ==
    \/ \E j \in Jobs : Admit(j) \/ Begin(j) \/ Record(j)
    \/ \E j \in Jobs, o \in Results : Finish(j, o)
    \/ \E j \in Jobs, f \in Failures : RecordFailure(j, f)
    \/ \E S \in SUBSET Jobs : Lose(S)

TurnSpec == TurnInit /\ [][TurnNext]_<<row, turn>>
=============================================================================
