---------------------------- MODULE MC_Progress ----------------------------
(* What must eventually happen.  The components keep no state in common and   *)
(* are checked side by side: every behaviour is one of one component.         *)
EXTENDS DisplayReads, ProjectLifecycle, AutomaticRecovery

CONSTANTS r1, r2, x, y

VARIABLE part

Accounts == {r1, r2}
TwoProjects == {x, y}

Init ==
    /\ part \in {"display", "lifecycle", "recovery"}
    /\ DisplayInit /\ LifecycleInit /\ RecoveryInit
    /\ part # "display" => revision = r1

vars == <<part, displayVars, lifecycleVars, recoveryVars>>

\* A step of one component.
Display(A)   == part = "display" /\ A /\ UNCHANGED <<part, lifecycleVars, recoveryVars>>
Lifecycle(A) == part = "lifecycle" /\ A /\ UNCHANGED <<part, displayVars, recoveryVars>>
Recovery(A)  == part = "recovery" /\ A /\ UNCHANGED <<part, displayVars, lifecycleVars>>

Next == Display(DisplayNext) \/ Lifecycle(LifecycleNext) \/ Recovery(RecoveryNext)

\* The fairness of DisplaySpec, LifecycleFair and RecoveryFair.  Only one
\* component takes steps, so a duty of each can share a clause.
Reads(k) == Display(\E o \in {"value", "none"} : SettleRead(k, o))
Returns(p) == Lifecycle(shared[p] /\ SharedChanges(p))
Spec ==
    /\ Init /\ [][Next]_vars
    /\ SF_vars(Recovery(TimerSweeps))
    /\ WF_vars(Lifecycle(RunSteps) \/ Recovery(NextDue))
    /\ WF_vars(Returns(x) \/ Reads(r1) \/ Recovery(NextOfPage))
    /\ WF_vars(Returns(y) \/ Reads(r2) \/ Recovery(ReadCandidates))
    /\ WF_vars(Recovery(Survey))
    /\ WF_vars(Recovery(\E result \in Answers3 : AttemptAnswers(result)))
    /\ \A g \in Agents, i \in Incidents : WF_vars(Recovery(BackoffEnds(g, i)))

\* An archive that was asked for is confirmed, and a legacy deletion carried
\* out (ProjectLifecycle's ArchiveCompletes, where its controller runs).
ArchivesComplete == part = "lifecycle" => ArchiveCompletes
=============================================================================
