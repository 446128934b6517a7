----------------------- MODULE LifecycleReservations -----------------------
(* RuntimeLifecycleCoordinator (runtimeLifecycle.ts) and what the macOS helper *)
(* does for it (macosHelperServer.ts).  A reservation to start, stop or quit  *)
(* the runtime is kept in a file and outlives the helper.  It is inspected,   *)
(* claimed and carried out over many awaits, while the user may cancel it,     *)
(* replace it or ask for the contrary.  The first start has a budget of        *)
(* attempts, each with a launcher in a process group of its own, which the     *)
(* end of the helper leaves alone.                                             *)
(* What a stop does to the runtime's work is RuntimeStop's; here it succeeds, *)
(* finds the runtime busy, or fails.  "quit" is a shutdown or a mode switch,   *)
(* which the application finishes; restarts, configuration and the             *)
(* replacement of the helper are left out.                                     *)
EXTENDS Naturals, Sequences, FiniteSets, Absence

CONSTANTS
    StartBudget,          \* attempts of an initial start (INITIAL_START_MAX_ATTEMPTS, 3)
    MaxReservations, \* bound: reservations in all
    MaxHelperCrashes,
    MaxLauncherExits

ASSUME ReservationsAssumption ==
    /\ StartBudget \in Nat \ {0}
    /\ {MaxReservations, MaxHelperCrashes, MaxLauncherExits} \subseteq Nat

VARIABLES
    records,    \* the reservations, in the file and in memory
    recovery,   \* recovery: those found pending when the helper began
    preparing,  \* the submission that awaits driver.prepare
    evaluation, \* the evaluation going on, None between two
    late,       \* reservations whose deadlineAt has come
    group,      \* process group of each attempt of each reservation
    runtimeLock, \* the launcher that owns the runtime lock
    managed,    \* managedPid: the launcher this helper has started
    disabled,   \* attempts during which the user was told that retries are disabled
    helperEnds, exits

reservationVars ==
    <<records, recovery, preparing, evaluation, late, group, runtimeLock, managed, disabled, helperEnds, exits>>

RequestKinds == {"start", "stop", "quit"}
Terminal(phase) == phase \in {"completed", "cancelled", "failed"}
Cancellable(phase) == phase \in {"waiting", "blocked", "handoff-ready"}
Executing(phase) == phase \in {"executing", "reconnecting"}

Tokens == (1 .. MaxReservations) \X (1 .. StartBudget)
\* A launcher runs; a group is there as long as the launcher or a child of it is.
Runs(token) == group[token] \in {"starting", "ready"}
GroupAlive(token) == Runs(token) \/ group[token] = "orphans"

\* lifecycleRunIdentity: the running launcher that this helper has, or adopts when it is
\* ready; a lock whose launcher is not ready is a conflict (adoptExistingRuntime).
Run ==
    IF managed # None /\ Runs(managed) THEN managed
    ELSE IF runtimeLock # None /\ group[runtimeLock] = "ready" THEN runtimeLock ELSE None
Conflict == Run = None /\ runtimeLock # None /\ Runs(runtimeLock)

\* active: the last reservation that has not ended.
Pending == {i \in DOMAIN records : ~Terminal(records[i].phase)}
Active(i) == i \in Pending /\ \A j \in Pending : j <= i

AttemptOwner(i) == <<i, records[i].attempts>>

ReservationsInit ==
    /\ records = <<>> /\ recovery = {} /\ preparing = None /\ evaluation = None
    /\ late = {} /\ group = [token \in Tokens |-> "none"] /\ runtimeLock = None /\ managed = None
    /\ disabled = {} /\ helperEnds = 0 /\ exits = 0

--------------------------------------------------------------------------
(* transition: every change is persisted, and makes what an evaluation has     *)
(* seen so far out of date (revision).                                         *)

Outdated == IF evaluation = None THEN None ELSE [evaluation EXCEPT !.current = FALSE]

Phased(i, phase) == [records EXCEPT ![i].phase = phase]

\* A stop, quit or cancel that comes too late for the attempt disables the next.
Suppressed(i) == [records EXCEPT ![i].suppressed = TRUE]

SuppressRetry(i) ==
    /\ records[i].initial /\ Executing(records[i].phase) /\ ~records[i].suppressed
    /\ records' = Suppressed(i) /\ disabled' = disabled \cup {AttemptOwner(i)}
    /\ evaluation' = Outdated
    /\ UNCHANGED <<recovery, preparing, late, group, runtimeLock, managed, helperEnds, exits>>

\* A replacement names the pending reservation, which must still be cancellable.
Submit(kind, replaces) ==
    /\ preparing = None /\ Len(records) < MaxReservations
    /\ IF replaces = {} THEN Pending = {} ELSE \A i \in replaces : Active(i) /\ Cancellable(records[i].phase)
    /\ preparing' = [kind |-> kind, replaces |-> replaces]
    /\ UNCHANGED <<records, recovery, evaluation, late, group, runtimeLock, managed, disabled, helperEnds, exits>>

SubmitSuppresses(i) == Active(i) /\ preparing = None /\ SuppressRetry(i)

Replaces(replaced) == \A i \in replaced : Cancellable(records[i].phase)

Replaced(replaced) ==
    [i \in DOMAIN records |-> IF i \in replaced THEN [records[i] EXCEPT !.phase = "cancelled"] ELSE records[i]]

\* A start that finds the runtime running has nothing to launch.
Reservation(kind) ==
    [kind |-> kind, phase |-> "waiting", initial |-> kind = "start" /\ Run = None,
     before |-> IF kind = "start" THEN Run ELSE None,
     attempts |-> 0, cleanup |-> "clear", pid |-> FALSE, suppressed |-> FALSE]

Prepared ==
    /\ preparing # None /\ preparing' = None
    /\ \/ /\ Replaces(preparing.replaces)
          /\ preparing.kind = "start" => ~Conflict
          /\ records' = Append(Replaced(preparing.replaces), Reservation(preparing.kind))
          /\ evaluation' = Outdated
       \/ \* prepare() throws, or the reservation to replace is not cancellable any more
          UNCHANGED <<records, evaluation>>
    /\ UNCHANGED <<recovery, late, group, runtimeLock, managed, disabled, helperEnds, exits>>

CancelReservation(i) ==
    /\ Cancellable(records[i].phase)
    /\ records' = Phased(i, "cancelled") /\ evaluation' = Outdated
    /\ UNCHANGED <<recovery, preparing, late, group, runtimeLock, managed, disabled, helperEnds, exits>>

\* The application takes over a prepared quit.
Acknowledge(i) ==
    /\ records[i].phase = "handoff-ready"
    /\ records' = Phased(i, "handing-off") /\ evaluation' = Outdated
    /\ UNCHANGED <<recovery, preparing, late, group, runtimeLock, managed, disabled, helperEnds, exits>>

--------------------------------------------------------------------------
(* evaluate(), one at a time.  Its catch decides what a failure means.         *)

Current == evaluation.current
Rec == records[evaluation.of]
At(step) == evaluation # None /\ evaluation.step = step
StepsTo(step) == evaluation' = [evaluation EXCEPT !.step = step]

\* A failed attempt is repeated if its end is proven, its reason passes and time is left.
Retries(i, confirmed, transient) ==
    /\ ~records[i].suppressed /\ confirmed /\ transient
    /\ records[i].attempts < StartBudget /\ i \notin late

Failed(i, confirmed, transient) ==
    IF ~records[i].initial THEN Phased(i, "failed")
    ELSE [records EXCEPT
            ![i].phase = IF Retries(i, confirmed, transient) THEN "waiting"
                         ELSE IF records[i].suppressed /\ confirmed THEN "cancelled" ELSE "failed",
            ![i].cleanup = IF confirmed THEN "clear" ELSE "uncertain"]

FailsWith(confirmed, transient) ==
    /\ records' = IF Terminal(Rec.phase) THEN records ELSE Failed(evaluation.of, confirmed, transient)
    /\ recovery' = IF Rec.initial /\ ~Terminal(Rec.phase) THEN recovery \ {evaluation.of} ELSE recovery
    /\ evaluation' = None

Concludes(phase) ==
    /\ records' = [records EXCEPT ![evaluation.of].phase = phase,
                                  ![evaluation.of].cleanup = IF phase = "completed" THEN "clear" ELSE @]
    /\ evaluation' = None

Leaves == evaluation' = None /\ UNCHANGED records

Begins(i, step) == evaluation' = [of |-> i, step |-> step, current |-> TRUE]

\* After an end of the helper, and after a hand-off, what has become of it comes first.
EvaluateBegins ==
    /\ evaluation = None
    /\ \E i \in DOMAIN records : Active(i) /\
       IF i \in recovery \/ records[i].phase \in {"handoff-ready", "handing-off"}
         THEN Begins(i, "reconcile") /\ UNCHANGED <<records, recovery>>
         ELSE IF records[i].initial /\ i \in late
         THEN records' = Failed(i, records[i].cleanup = "clear", FALSE) /\ UNCHANGED <<recovery, evaluation>>
         ELSE Begins(i, "inspect") /\ UNCHANGED <<records, recovery>>
    /\ UNCHANGED <<preparing, late, group, runtimeLock, managed, disabled, helperEnds, exits>>

(* reconcileLifecycle observes, and starts nothing.                            *)

\* assertInitialStartupCleanup: the attempt's launcher is known, and nothing of it is left.
CleanupProven(i) ==
    /\ runtimeLock # None => runtimeLock = AttemptOwner(i) /\ records[i].pid /\ ~Runs(runtimeLock)
    /\ IF records[i].pid THEN ~GroupAlive(AttemptOwner(i)) ELSE records[i].cleanup = "clear"

\* The attempt that was under way: it became ready, goes on, or is over.
AttemptReconciled(i) ==
    LET token == AttemptOwner(i) IN
    IF runtimeLock \notin {None, token} \/ (runtimeLock = None /\ ~records[i].pid)
      THEN FailsWith(FALSE, FALSE) /\ UNCHANGED runtimeLock
    ELSE IF ~Runs(token)
      THEN IF CleanupProven(i)
           THEN runtimeLock' = None /\ \E transient \in BOOLEAN : FailsWith(TRUE, transient)
           ELSE FailsWith(FALSE, FALSE) /\ UNCHANGED runtimeLock
    ELSE /\ UNCHANGED runtimeLock
         /\ \/ runtimeLock = None /\ FailsWith(FALSE, FALSE)
            \/ /\ runtimeLock = token /\ group[token] = "ready"
               /\ Concludes("completed") /\ recovery' = recovery \ {i}
            \/ runtimeLock = token /\ i \notin late /\ Leaves /\ UNCHANGED recovery
            \/ \* the settings have changed, or its time is over
               runtimeLock = token /\ FailsWith(FALSE, FALSE)

\* What a stop or a hand-off has reached can be seen from the runtime.
StopReconciled(i) ==
    /\ UNCHANGED runtimeLock
    /\ \/ \* the receipt of the application, or a conflict of ownership
          (Rec.kind = "quit" \/ Conflict) /\ FailsWith(FALSE, FALSE)
       \/ /\ Rec.phase = "handing-off" /\ Run = None
          /\ Concludes("completed") /\ recovery' = recovery \ {i}
       \/ /\ Rec.phase = "handing-off"
          /\ Leaves /\ recovery' = recovery \ {i}
       \/ /\ Rec.phase # "handing-off" /\ Run = None
          /\ Concludes(IF Rec.kind = "quit" THEN "handoff-ready" ELSE "completed")
          /\ recovery' = recovery \ {i}
       \/ /\ Rec.phase # "handing-off" /\ Run # None
          /\ IF Rec.phase = "handoff-ready" \/ Run # Rec.before THEN FailsWith(FALSE, FALSE)
             ELSE Concludes("waiting") /\ recovery' = recovery \ {i}

ReconcileRecord ==
    /\ At("reconcile")
    /\ IF ~Current THEN UNCHANGED runtimeLock /\ (FailsWith(FALSE, FALSE) \/ (Leaves /\ UNCHANGED recovery))
       ELSE LET i == evaluation.of IN
            IF Rec.phase \in {"waiting", "blocked"}
              THEN Concludes("waiting") /\ recovery' = recovery \ {i} /\ UNCHANGED runtimeLock
            ELSE IF Rec.initial THEN AttemptReconciled(i)
            ELSE IF Rec.kind = "start"
              THEN /\ UNCHANGED runtimeLock
                   /\ IF Conflict \/ Run \notin {None, Rec.before} THEN FailsWith(FALSE, FALSE)
                      ELSE Concludes("waiting") /\ recovery' = recovery \ {i}
            ELSE StopReconciled(i)
    /\ UNCHANGED <<preparing, late, group, managed, disabled, helperEnds, exits>>

--------------------------------------------------------------------------
(* inspectLifecycle, and the claim that follows it without another await.      *)

\* execute: an attempt is counted, and its launcher unknown, before anything is started.
Claimed(i) ==
    [records EXCEPT ![i].phase = "executing", ![i].before = Run,
                    ![i].attempts = IF records[i].initial THEN @ + 1 ELSE @,
                    ![i].cleanup = IF records[i].initial THEN "pending" ELSE @,
                    ![i].pid = FALSE]

ClaimsExecution(i) ==
    IF records[i].initial /\ (\/ records[i].suppressed \/ records[i].cleanup # "clear"
                              \/ records[i].attempts >= StartBudget)
      THEN FailsWith(FALSE, FALSE)
      ELSE records' = Claimed(i) /\ StepsTo("act") /\ UNCHANGED recovery

IsCurrentAnyway == TRUE
IsCurrent == Current

Inspect ==
    /\ At("inspect")
    /\ LET i == evaluation.of
           again == Rec.initial /\ Rec.attempts > 0
       IN /\ runtimeLock' = IF again /\ CleanupProven(i) THEN None ELSE runtimeLock
          /\ \/ \* the attempt before is not proven over, or the target has changed
                FailsWith(FALSE, FALSE)
             \/ ~IsCurrent /\ Leaves /\ UNCHANGED recovery
             \/ /\ IsCurrent /\ ~Conflict /\ (again => CleanupProven(i))
                /\ Rec.kind = "start" /\ ~Rec.initial => Run = Rec.before
                /\ \/ ClaimsExecution(i)
                   \/ /\ Rec.kind # "start" /\ Run # None \* the runtime is busy
                      /\ \E phase \in {"waiting", "blocked"} : Concludes(phase)
                      /\ UNCHANGED recovery
    /\ UNCHANGED <<preparing, late, group, managed, disabled, helperEnds, exits>>

--------------------------------------------------------------------------
(* driver.execute.  The user can no longer cancel, only suppress the retry.    *)

\* A start that has nothing to launch, or may not.
StartActs ==
    /\ At("act") /\ Rec.kind = "start"
    /\ \/ Run # None /\ (Rec.initial \/ Run = Rec.before) /\ Concludes("completed") /\ UNCHANGED recovery
       \/ FailsWith(FALSE, FALSE)
       \/ Rec.initial /\ evaluation.of \in late /\ FailsWith(TRUE, FALSE)
    /\ UNCHANGED <<preparing, late, group, runtimeLock, managed, disabled, helperEnds, exits>>

LaunchAttempt ==
    /\ At("act") /\ Rec.initial /\ Run = None /\ ~Conflict /\ evaluation.of \notin late
    /\ group' = [group EXCEPT ![AttemptOwner(evaluation.of)] = "starting"]
    /\ managed' = AttemptOwner(evaluation.of)
    /\ StepsTo("launched")
    /\ UNCHANGED <<records, recovery, preparing, late, runtimeLock, disabled, helperEnds, exits>>

\* The report of the launcher adds to the startup as it is now.
ReportedStale(i) == [records EXCEPT ![i].phase = "reconnecting", ![i].pid = TRUE, ![i].suppressed = FALSE]
Reported(i) == [records EXCEPT ![i].phase = "reconnecting", ![i].pid = TRUE]

ReportLauncher ==
    /\ At("launched")
    /\ records' = Reported(evaluation.of)
    /\ StepsTo("wait")
    /\ UNCHANGED <<recovery, preparing, late, group, runtimeLock, managed, disabled, helperEnds, exits>>

\* waitForManagedRuntime
LauncherReady ==
    /\ At("wait") /\ group[AttemptOwner(evaluation.of)] = "ready" /\ evaluation.of \notin late
    /\ Concludes("completed")
    /\ UNCHANGED <<recovery, preparing, late, group, runtimeLock, managed, disabled, helperEnds, exits>>

\* The end of a failed attempt is proven, unless its work is protected or it cannot be known.
AttemptCleaned ==
    /\ At("wait") /\ (~Runs(AttemptOwner(evaluation.of)) \/ evaluation.of \in late)
    /\ LET token == AttemptOwner(evaluation.of) IN
       \/ /\ runtimeLock = token \/ (runtimeLock = None /\ ~GroupAlive(token))
          /\ group' = [group EXCEPT ![token] = "gone"]
          /\ runtimeLock' = None /\ managed' = None
          /\ \E transient \in BOOLEAN : FailsWith(TRUE, transient)
       \/ FailsWith(FALSE, FALSE) /\ UNCHANGED <<group, runtimeLock, managed>>
    /\ UNCHANGED <<preparing, late, disabled, helperEnds, exits>>

\* A stop empties the runtime, finds it busy after all, or fails.
StopActs ==
    /\ At("act") /\ Rec.kind # "start"
    /\ \/ /\ group' = IF Run = None THEN group ELSE [group EXCEPT ![Run] = "gone"]
          /\ runtimeLock' = IF Run = runtimeLock THEN None ELSE runtimeLock
          /\ managed' = None
          /\ Concludes(IF Rec.kind = "quit" THEN "handoff-ready" ELSE "completed")
          /\ UNCHANGED recovery
       \/ /\ Run # None /\ Concludes("blocked") /\ UNCHANGED <<recovery, group, runtimeLock, managed>>
       \/ /\ FailsWith(FALSE, FALSE) /\ UNCHANGED <<group, runtimeLock, managed>>
    /\ UNCHANGED <<preparing, late, disabled, helperEnds, exits>>

--------------------------------------------------------------------------
(* The launchers, the clock and the helper's end.                              *)

LauncherTakesLock(token) ==
    /\ group[token] = "starting" /\ runtimeLock # token
    /\ IF runtimeLock = None \/ ~Runs(runtimeLock)
         THEN runtimeLock' = token /\ UNCHANGED group
         ELSE group' = [group EXCEPT ![token] = "gone"] /\ UNCHANGED runtimeLock
    /\ UNCHANGED <<records, recovery, preparing, evaluation, late, managed, disabled, helperEnds, exits>>

LauncherBecomesReady(token) ==
    /\ group[token] = "starting" /\ runtimeLock = token
    /\ group' = [group EXCEPT ![token] = "ready"]
    /\ UNCHANGED <<records, recovery, preparing, evaluation, late, runtimeLock, managed, disabled, helperEnds, exits>>

\* Its children may outlive it, and so may the lock.
LauncherExits(token) ==
    /\ Runs(token) /\ exits < MaxLauncherExits /\ exits' = exits + 1
    /\ \E left \in {"orphans", "gone"} : group' = [group EXCEPT ![token] = left]
    /\ \E frees \in BOOLEAN : runtimeLock' = IF frees /\ runtimeLock = token THEN None ELSE runtimeLock
    /\ UNCHANGED <<records, recovery, preparing, evaluation, late, managed, disabled, helperEnds>>

OrphansEnd(token) ==
    /\ group[token] = "orphans"
    /\ group' = [group EXCEPT ![token] = "gone"]
    /\ UNCHANGED <<records, recovery, preparing, evaluation, late, runtimeLock, managed, disabled, helperEnds, exits>>

BudgetEnds(i) ==
    /\ records[i].initial /\ ~Terminal(records[i].phase) /\ i \notin late
    /\ late' = late \cup {i}
    /\ UNCHANGED <<records, recovery, preparing, evaluation, group, runtimeLock, managed, disabled, helperEnds, exits>>

HelperRestarts ==
    /\ helperEnds < MaxHelperCrashes /\ helperEnds' = helperEnds + 1
    /\ recovery' = Pending
    /\ preparing' = None /\ evaluation' = None /\ managed' = None
    /\ UNCHANGED <<records, late, group, runtimeLock, disabled, exits>>

ReservationsNext ==
    \/ \E kind \in RequestKinds, replaces \in {{}} \cup {{i} : i \in DOMAIN records} : Submit(kind, replaces)
    \/ Prepared
    \/ \E i \in DOMAIN records :
          CancelReservation(i) \/ Acknowledge(i) \/ SuppressRetry(i) \/ SubmitSuppresses(i) \/ BudgetEnds(i)
    \/ EvaluateBegins \/ ReconcileRecord \/ Inspect
    \/ StartActs \/ LaunchAttempt \/ ReportLauncher \/ LauncherReady \/ AttemptCleaned \/ StopActs
    \/ \E token \in Tokens :
          LauncherTakesLock(token) \/ LauncherBecomesReady(token) \/ LauncherExits(token) \/ OrphansEnd(token)
    \/ HelperRestarts

ReservationsSpec == ReservationsInit /\ [][ReservationsNext]_reservationVars

--------------------------------------------------------------------------
(* What a reservation that was cancelled or replaced, or has ended, has become *)
(* is never changed again: an evaluation that has awaited does not carry out   *)
(* what the user took back in the meantime (evaluate's current(), submit's     *)
(* second look after prepare).                                                 *)
EndedStaysEnded ==
    [][\A i \in DOMAIN records : Terminal(records[i].phase) => records'[i] = records[i]]_reservationVars

(* An attempt is launched only while its reservation is being carried out,    *)
(* when nothing of an earlier attempt of it is left, and none after the       *)
(* attempt whose retries were said to be disabled, whatever ends of the       *)
(* helper lie between (docs/runtime-lifecycle.md, bounded initial startup).    *)
AttemptIsAuthorized ==
    [][\A token \in Tokens : group[token] = "none" /\ group'[token] # "none" =>
         /\ Executing(records[token[1]].phase)
         /\ \A attempt \in 1 .. token[2] - 1 :
               <<token[1], attempt>> \notin disabled /\ ~GroupAlive(<<token[1], attempt>>)]_reservationVars
=============================================================================
