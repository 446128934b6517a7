-------------------------- MODULE ProjectLifecycle --------------------------
(* projectLifecycle.ts: the archive of a project is an intent on record, and   *)
(* a controller that stops its Jobs and releases its conversations until it    *)
(* can say so.  Every external call may fail, or be given up after 10 seconds  *)
(* and still have its effect; the bridge may end between any two of them.      *)
EXTENDS Naturals, Sequences, SequencesExt, Absence

CONSTANTS
    Projects,
    Legacy,         \* projects an older version deleted before their cleanup (deleted_at)
    MaxArchives,    \* bound: archive requests per project
    MaxMishaps      \* bound: external calls that fail, database errors, ends of the bridge

ASSUME LifecycleAssumption == Legacy \subseteq Projects /\ {MaxArchives, MaxMishaps} \subseteq Nat

VARIABLES
    archive,    \* projects: archive_state and archive_revision; None once deleted
    busy,       \* the project has an unfinished Job
    context,    \* its conversation: none, loaded, unloaded (loaded no more, not on record), released
    shared,     \* a Job of another project uses the conversation
    attempt,    \* the run of the controller
    mishaps

lifecycleVars == <<archive, busy, context, shared, attempt, mishaps>>

NoRun == [at |-> "off", todo |-> <<>>, bad |-> FALSE, confirmed |-> FALSE]

LifecycleInit ==
    /\ archive = [p \in Projects |-> [state |-> IF p \in Legacy THEN "processing" ELSE "active", revision |-> 0]]
    /\ busy = [p \in Projects |-> FALSE]
    /\ context = [p \in Projects |-> IF p \in Legacy THEN "loaded" ELSE "none"]
    /\ shared = [p \in Projects |-> FALSE]
    /\ attempt = NoRun /\ mishaps = 0

Exists(p) == archive[p] # None
InState(p, states) == Exists(p) /\ archive[p].state \in states
Mishap(ok) == IF ok THEN UNCHANGED mishaps ELSE mishaps < MaxMishaps /\ mishaps' = mishaps + 1

--------------------------------------------------------------------------
(* The registry of projects and what goes on in them. *)

ArchiveRequested(p) ==
    /\ InState(p, {"active", "processing", "unresolved"}) /\ archive[p].revision < MaxArchives
    /\ archive' = [archive EXCEPT ![p] = [state |-> "processing", revision |-> @.revision + 1]]
    /\ UNCHANGED <<busy, context, shared, attempt, mishaps>>

RestoreProject(p) ==
    /\ InState(p, {"complete"}) /\ p \notin Legacy
    /\ archive' = [archive EXCEPT ![p].state = "active"]
    /\ UNCHANGED <<busy, context, shared, attempt, mishaps>>

\* Delete needs a confirmed archive; only receipts of the project remain.
DeleteProject(p) ==
    /\ InState(p, {"complete"}) /\ ~busy[p] /\ p \notin Legacy
    /\ archive' = [archive EXCEPT ![p] = None]
    /\ UNCHANGED <<busy, context, shared, attempt, mishaps>>

\* assertActive, in the transaction that admits a Job.
WorkStarts(p) ==
    /\ InState(p, {"active"}) /\ ~busy[p]
    /\ busy' = [busy EXCEPT ![p] = TRUE] /\ context' = [context EXCEPT ![p] = "loaded"]
    /\ UNCHANGED <<archive, shared, attempt, mishaps>>

\* A Job ends by itself, or by a stop the controller has given up waiting for.
WorkStops(p) ==
    /\ busy[p] /\ busy' = [busy EXCEPT ![p] = FALSE]
    /\ UNCHANGED <<archive, context, shared, attempt, mishaps>>

\* A Job of another project that started from this conversation.
SharedChanges(p) ==
    /\ context[p] # "none" /\ shared' = [shared EXCEPT ![p] = ~@]
    /\ shared[p] \/ InState(p, {"active"})
    /\ UNCHANGED <<archive, busy, context, attempt, mishaps>>

\* A release the controller has given up waiting for.
LateRelease(p) ==
    /\ context[p] = "loaded" /\ ~busy[p] /\ ~shared[p] /\ InState(p, {"unresolved"})
    /\ context' = [context EXCEPT ![p] = "unloaded"]
    /\ UNCHANGED <<archive, busy, shared, attempt, mishaps>>

--------------------------------------------------------------------------
(* The controller. *)

PendingProcessing == {p \in Projects : InState(p, {"processing"}) \/ (p \in Legacy /\ InState(p, {"complete"}))}
PendingArchives == {p \in Projects : InState(p, {"processing", "unresolved"}) \/ (p \in Legacy /\ InState(p, {"complete"}))}

IsIntentCurrent(intent) == intent.project \in PendingArchives /\ archive[intent.project].revision = intent.revision

Intent == Head(attempt.todo)
NextIntent == [NoRun EXCEPT !.at = "intent", !.todo = Tail(attempt.todo)]
AtStep(step) == attempt.at = step /\ attempt.todo # <<>>

RunBegins ==
    /\ attempt.at = "off" /\ PendingArchives # {}
    /\ \E order \in SetToSeqs(PendingArchives) :
          attempt' = [NoRun EXCEPT !.at = "intent", !.todo =
              [i \in DOMAIN order |-> [project |-> order[i], revision |-> archive[order[i]].revision]]]
    /\ UNCHANGED <<archive, busy, context, shared, mishaps>>

RunEnds ==
    /\ attempt.at = "intent" /\ attempt.todo = <<>> /\ attempt' = NoRun
    /\ UNCHANGED <<archive, busy, context, shared, mishaps>>

Unresolved(intent) ==
    archive' = [archive EXCEPT ![intent.project] =
        IF IsIntentCurrent(intent) THEN [@ EXCEPT !.state = "unresolved"] ELSE @]

\* A stale intent is left to the next run; a legacy deletion that is confirmed
\* only has to be carried out, and is asked for anew if that fails.
TakeIntent(ok) ==
    /\ AtStep("intent")
    /\ LET p == Intent.project IN
       \/ /\ ~IsIntentCurrent(Intent) /\ ok
          /\ attempt' = NextIntent /\ UNCHANGED archive
       \/ /\ IsIntentCurrent(Intent) /\ InState(p, {"complete"})
          /\ IF ok THEN archive' = [archive EXCEPT ![p] = None] ELSE Unresolved(Intent)
          /\ attempt' = NextIntent
       \/ /\ IsIntentCurrent(Intent) /\ ~InState(p, {"complete"}) /\ ok
          /\ attempt' = [attempt EXCEPT !.at = "jobs"] /\ UNCHANGED archive
    /\ UNCHANGED <<busy, context, shared>> /\ Mishap(ok)

\* stopForProjectArchive, behind the timeout of external().  A stop that fails
\* is a reason, whether or not its Job has ended meanwhile.
StopJobs(ok) ==
    LET p == Intent.project IN
    /\ AtStep("jobs")
    /\ IF ~IsIntentCurrent(Intent) THEN ok /\ attempt' = NextIntent /\ UNCHANGED busy
       ELSE /\ busy' = [busy EXCEPT ![p] = @ /\ ~ok]
            /\ attempt' = [attempt EXCEPT !.at = IF ok THEN "threads" ELSE "commit", !.bad = ~ok]
    /\ UNCHANGED <<archive, context, shared>> /\ Mishap(ok)

\* A conversation that another project uses is kept; one on record as released
\* needs nothing; the others go to the pool, which asks once more.  A release that
\* cannot be proven (a process with the old worker's number lives) is a failure.
ReleaseContext(ok) ==
    LET p == Intent.project IN
    /\ AtStep("threads")
    /\ IF ~IsIntentCurrent(Intent) THEN ok /\ attempt' = NextIntent /\ UNCHANGED context
       ELSE LET released == ok /\ ~shared[p] /\ context[p] \in {"loaded", "unloaded"} IN
            /\ context' = [context EXCEPT ![p] = IF released THEN "released" ELSE @]
            /\ attempt' = [attempt EXCEPT !.at = "commit", !.confirmed = released,
                              !.bad = ~ok \/ shared[p]]
    /\ UNCHANGED <<archive, busy, shared>> /\ Mishap(ok)

\* complete(): under the revision of the intent, and a fresh look at the Jobs
\* and the conversations.
Completes(intent) ==
    LET p == intent.project IN
    /\ InState(p, {"processing", "unresolved"}) /\ archive[p].revision = intent.revision
    /\ ~busy[p] /\ ~shared[p] /\ (context[p] \in {"loaded", "unloaded"} => attempt.confirmed)

\* A legacy deletion follows the commit.  It may fail, and the archive is asked
\* for anew; or the bridge ends between the two.
CommitAttempt(ok) ==
    LET p     == Intent.project
        done  == ~attempt.bad /\ Completes(Intent)
        becomes(state) == archive' = [archive EXCEPT ![p].state = state]
    IN
    /\ AtStep("commit")
    /\ \/ /\ ok /\ done /\ attempt' = NextIntent
          /\ context' = [context EXCEPT ![p] = "none"]
          /\ IF p \in Legacy THEN archive' = [archive EXCEPT ![p] = None] ELSE becomes("complete")
       \/ /\ ~ok /\ done /\ p \in Legacy
          /\ context' = [context EXCEPT ![p] = "none"]
          /\ \/ becomes("unresolved") /\ attempt' = NextIntent
             \/ becomes("complete") /\ attempt' = NoRun
       \/ (ok => ~done) /\ Unresolved(Intent) /\ attempt' = NextIntent /\ UNCHANGED context
    /\ UNCHANGED <<busy, shared>> /\ Mishap(ok)

\* The bridge ends; the intents stay on record.
LifecycleCrash ==
    /\ attempt.at # "off" /\ attempt' = NoRun
    /\ UNCHANGED <<archive, busy, context, shared>> /\ Mishap(FALSE)

RunSteps == RunBegins \/ RunEnds \/ TakeIntent(TRUE) \/ StopJobs(TRUE) \/ ReleaseContext(TRUE) \/ CommitAttempt(TRUE)

LifecycleNext ==
    \/ RunSteps \/ TakeIntent(FALSE) \/ StopJobs(FALSE) \/ ReleaseContext(FALSE) \/ CommitAttempt(FALSE) \/ LifecycleCrash
    \/ \E p \in Projects :
          \/ ArchiveRequested(p) \/ RestoreProject(p) \/ DeleteProject(p)
          \/ WorkStarts(p) \/ WorkStops(p) \/ SharedChanges(p) \/ LateRelease(p)

LifecycleSpec == LifecycleInit /\ [][LifecycleNext]_lifecycleVars

\* The timer and the database keep working, and other projects finish.
LifecycleFair ==
    /\ LifecycleSpec /\ WF_lifecycleVars(RunSteps)
    /\ \A p \in Projects : WF_lifecycleVars(shared[p] /\ SharedChanges(p))
--------------------------------------------------------------------------
\* An archive that was asked for is confirmed, and a legacy deletion carried
\* out, whatever fails and wherever the bridge ends on the way.
ArchiveCompletes ==
    /\ \A p \in Projects : InState(p, {"processing", "unresolved"}) ~> (archive[p] = None \/ InState(p, {"complete"}))
    /\ \A p \in Legacy : <>[](archive[p] = None)
=============================================================================
