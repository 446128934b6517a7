-------------------------- MODULE RuntimeDrainGate --------------------------
(***************************************************************************)
(* The admission gate of src/src/runtimeDrain.ts.  Two kinds of callers    *)
(* close and reopen it, from other processes and without knowing of each   *)
(* other: an ordinary stop or restart, and the cleanup of one failed       *)
(* initial start, which names its target and carries a deadline.  Their    *)
(* requests may be delayed past their own cancellation.                    *)
(*                                                                         *)
(* A target is an identity (launcher pid, token, request, attempt) and a   *)
(* deadline.  Refused calls throw before they change anything and are not  *)
(* actions.                                                                *)
(***************************************************************************)
EXTENDS Integers

CONSTANTS
    Identities,  \* runtime identities a caller may name
    Binding,     \* the identity and deadline inherited at start, or Unbound
    Unbound,     \* "null" / "undefined"
    MaxTime      \* bound on the clock, and on every deadline

Times == 0 .. MaxTime
Targets == [identity : Identities, deadline : Times]

ASSUME GateAssumption ==
    /\ MaxTime \in Nat
    /\ Unbound \notin Targets
    /\ Binding \in Targets \cup {Unbound}

VARIABLES
    acceptingNewJobs, \* admission.acceptingNewJobs
    owner,            \* the target whose drain holds the gate closed
    cancelled,        \* the target that may not close it again
    now,              \* the clock
    work              \* admissions and jobs under way

gateVars == <<acceptingNewJobs, owner, cancelled, now, work>>

GateInit ==
    /\ acceptingNewJobs = TRUE
    /\ owner = Unbound
    /\ cancelled = Unbound
    /\ now = 0
    /\ work = 0

-----------------------------------------------------------------------------
(* validate(): the target of a call, with the shortest budget seen for it *)

SameTarget(a, b) == a.identity = b.identity

Earlier(d, e) == IF d <= e THEN d ELSE e
DeadlineOf(t) == IF t = Unbound THEN MaxTime ELSE t.deadline
Shortest(t) == Earlier(t.deadline, Earlier(DeadlineOf(owner), DeadlineOf(cancelled)))

CheckedAfresh(t) == t
Checked(t) == [t EXCEPT !.deadline = Shortest(t)]

Valid(t) ==
    /\ Binding # Unbound
    /\ SameTarget(Binding, t)
    /\ t.deadline <= Binding.deadline
    /\ now < Shortest(t)

\* The gate may be taken, or given back, by t.
HoldsUnowned(t) == owner # Unbound => SameTarget(owner, t)
Holds(t) == IF owner # Unbound THEN SameTarget(owner, t) ELSE acceptingNewJobs

MayBeginAgain(t) == Valid(t) /\ Holds(t)
MayBegin(t) ==
    /\ Valid(t)
    /\ ~(cancelled # Unbound /\ SameTarget(cancelled, t))
    /\ Holds(t)

MayCancel(t) == Valid(t) /\ Holds(t)

-----------------------------------------------------------------------------
(* begin() and cancel() of an ordinary stop *)

Retired ==
    IF owner # Unbound THEN owner
    ELSE IF cancelled # Unbound THEN cancelled ELSE Binding

Begin ==
    /\ cancelled' = Retired
    /\ owner' = Unbound
    /\ acceptingNewJobs' = FALSE
    /\ UNCHANGED <<now, work>>

Cancel ==
    /\ owner = Unbound
    /\ acceptingNewJobs' = TRUE
    /\ UNCHANGED <<owner, cancelled, now, work>>

(* begin(target) and cancel(target) of the cleanup of an initial start *)

BeginFor(t) ==
    /\ MayBegin(t)
    /\ owner' = Checked(t)
    /\ acceptingNewJobs' = FALSE
    /\ UNCHANGED <<cancelled, now, work>>

CancelForKeepsClosed(t) ==
    /\ MayCancel(t)
    /\ owner' = Unbound
    /\ cancelled' = Checked(t)
    /\ UNCHANGED <<acceptingNewJobs, now, work>>

CancelFor(t) ==
    /\ MayCancel(t)
    /\ owner' = Unbound
    /\ cancelled' = Checked(t)
    /\ acceptingNewJobs' = TRUE
    /\ UNCHANGED <<now, work>>

-----------------------------------------------------------------------------
(* acquireRuntimeAdmission() and the end of what it admitted *)

AcquireAlways ==
    /\ work' = work + 1
    /\ UNCHANGED <<acceptingNewJobs, owner, cancelled, now>>

Acquire ==
    /\ acceptingNewJobs
    /\ work' = work + 1
    /\ UNCHANGED <<acceptingNewJobs, owner, cancelled, now>>

Release ==
    /\ work > 0
    /\ work' = work - 1
    /\ UNCHANGED <<acceptingNewJobs, owner, cancelled, now>>

Tick ==
    /\ now < MaxTime
    /\ now' = now + 1
    /\ UNCHANGED <<acceptingNewJobs, owner, cancelled, work>>

GateNext ==
    \/ Begin \/ Cancel
    \/ \E t \in Targets : BeginFor(t) \/ CancelFor(t)
    \/ Acquire \/ Release \/ Tick

GateSpec == GateInit /\ [][GateNext]_gateVars

-----------------------------------------------------------------------------
(* Types: an owner or a retired target is always this process's own. *)
GateTypeOK ==
    /\ acceptingNewJobs \in BOOLEAN
    /\ {owner, cancelled} \subseteq Targets \cup {Unbound}
    /\ \A t \in {owner, cancelled} \ {Unbound} :
          Binding # Unbound /\ SameTarget(Binding, t) /\ t.deadline <= Binding.deadline
    /\ now \in Times
    /\ work \in Nat

\* A target holds the gate only while it is closed, and not after it was
\* retired: a stale begin cannot close a restored service (76-77).
OwnerHoldsClosedGate ==
    owner # Unbound => /\ ~acceptingNewJobs
                       /\ cancelled = Unbound

\* The budget of a cleanup is never renewed: the deadline it is held to only
\* gets closer, across begin, repeated begin, cancel and retirement.
Budget == Earlier(DeadlineOf(owner), DeadlineOf(cancelled))
BudgetNeverRenewed == [][Budget' <= Budget]_gateVars
=============================================================================
