----------------------------- MODULE RuntimeStop -----------------------------
(***************************************************************************)
(* The two clients of RuntimeDrainGate in src/src/macosHelperServer.ts: the *)
(* cleanup of a failed initial start, which closes admission, reads what is *)
(* under way and only then signals the process group, and the ordinary      *)
(* stops of anybody else.  The cleanup's requests travel on connections of  *)
(* their own: a request it gave up on may still arrive, in any order.       *)
(***************************************************************************)
EXTENDS RuntimeDrainGate, FiniteSets

CONSTANTS
    Launched,   \* the identity the cleanup believes it started
    MaxWork     \* bound: admissions under way

ASSUME StopAssumption ==
    Launched \in Identities /\ MaxWork \in Nat

VARIABLES
    phase,      \* of the cleanup
    requests,   \* sent and not arrived
    inspecting, \* runtimeAdmissionSnapshot awaits the background inspection
    impact,     \* the reply of beginDrain, or Unbound
    drained,    \* history: the last ordinary call that took effect closed the gate
    reopened    \* history: an ordinary cancel opened it since the cleanup's drain began

clientVars == <<phase, requests, inspecting, impact>>
stopVars == <<gateVars, clientVars, drained, reopened>>

StopInit ==
    /\ GateInit
    /\ phase = "idle" /\ requests = {} /\ inspecting = FALSE /\ impact = Unbound
    /\ drained = FALSE /\ reopened = FALSE

Send(kind) ==
    \E d \in Times : requests' = requests \cup
        {[kind |-> kind, identity |-> Launched, deadline |-> d]}
TargetOf(m) == [identity |-> m.identity, deadline |-> m.deadline]

AskDrain ==
    /\ phase = "idle"
    /\ Send("begin")
    /\ phase' = "asked" /\ impact' = Unbound /\ inspecting' = FALSE
    /\ UNCHANGED <<gateVars, drained, reopened>>

\* beginDrain: the gate closes before the first await of the snapshot.
ArriveBegin(m) ==
    /\ m \in requests /\ m.kind = "begin"
    /\ requests' = requests \ {m}
    /\ IF MayBegin(TargetOf(m))
       THEN BeginFor(TargetOf(m)) /\ inspecting' = (phase = "asked") /\ reopened' = FALSE
       ELSE UNCHANGED <<gateVars, inspecting, reopened>>
    /\ UNCHANGED <<phase, impact, drained>>

ArriveCancel(m) ==
    /\ m \in requests /\ m.kind = "cancel"
    /\ requests' = requests \ {m}
    /\ IF MayCancel(TargetOf(m))
       THEN CancelFor(TargetOf(m)) ELSE UNCHANGED gateVars
    /\ UNCHANGED <<phase, inspecting, impact, drained, reopened>>

\* The counts are read after the background inspection.
Snapshot ==
    /\ inspecting
    /\ inspecting' = FALSE
    /\ impact' = [accepting |-> acceptingNewJobs, work |-> work]
    /\ UNCHANGED <<gateVars, phase, requests, drained, reopened>>

\* The reply names a closed, idle service: the owned group may be signalled.
Signal ==
    /\ phase = "asked" /\ impact # Unbound
    /\ ~impact.accepting /\ impact.work = 0
    /\ phase' = "signalled"
    /\ UNCHANGED <<gateVars, requests, inspecting, impact, drained, reopened>>

\* Refused, protected, timed out, reply lost or ownership changed: restore the
\* service.
GiveUp ==
    /\ phase = "asked"
    /\ Send("cancel")
    /\ phase' = "restoring" /\ inspecting' = FALSE
    /\ UNCHANGED <<gateVars, impact, drained, reopened>>

\* The group is gone after the signal: nothing below happens any more.
Alive == phase # "signalled"

OrdinaryBegin == Begin /\ drained' = TRUE /\ UNCHANGED <<clientVars, reopened>>
OrdinaryCancel == Cancel /\ drained' = FALSE /\ reopened' = TRUE /\ UNCHANGED clientVars

Admission ==
    /\ (work < MaxWork /\ Acquire) \/ Release \/ Tick
    /\ UNCHANGED <<clientVars, drained, reopened>>

StopNext ==
    /\ Alive
    /\ \/ AskDrain \/ Snapshot \/ Signal \/ GiveUp
       \/ \E m \in requests : ArriveBegin(m) \/ ArriveCancel(m)
       \/ OrdinaryBegin \/ OrdinaryCancel
       \/ Admission

StopSpec == StopInit /\ [][StopNext]_stopVars

-----------------------------------------------------------------------------
\* The last ordinary stop keeps the gate closed: a late cancel of a cleanup,
\* delivered after it, never reopens it (runtimeDrain.ts:45-47,
\* docs/runtime-lifecycle.md: "a late initial cancellation cannot reopen that
\* ordinary stop/drain/force/handoff gate").
OrdinaryDrainHolds == drained => ~acceptingNewJobs

\* A gate nobody holds is open: whatever order begins and cancels of the two
\* clients arrive in, admission is not lost with nobody to give it back.
ClosedGateIsHeld == acceptingNewJobs \/ drained \/ owner # Unbound

\* The group is signalled only while nothing is admitted, unless somebody else
\* reopened the gate after the cleanup's drain: closing precedes counting
\* (macosHelperServer.ts:1845-1846).
SignalledIsIdle == phase = "signalled" => reopened \/ work = 0

-----------------------------------------------------------------------------
(* Why they hold.  The two clients leave the gate in one of three states:  *)
(* held by the cleanup, drained by the last ordinary call, or open.        *)

StopTypeOK ==
    /\ phase \in {"idle", "asked", "restoring", "signalled"}
    /\ \A m \in requests : TargetOf(m) \in Targets
    /\ {inspecting, drained, reopened} \subseteq BOOLEAN
    /\ impact # Unbound => impact.accepting \in BOOLEAN /\ impact.work \in Nat

HeldBy == owner # Unbound => ~drained

\* The cleanup sends one begin, then perhaps one cancel, and reads only the
\* reply of its own begin.
RequestsOfPhase ==
    /\ phase = "idle" => requests = {} /\ ~inspecting /\ impact = Unbound
    /\ \A m \in requests : m.kind = "cancel" => phase = "restoring"
    /\ \A m, n \in requests : m.kind = "begin" /\ n.kind = "begin" => m = n
    /\ (inspecting \/ impact # Unbound) => \A m \in requests : m.kind # "begin"

SeenIdleIsIdle ==
    /\ phase \in {"asked", "signalled"} /\ impact # Unbound
    /\ ~impact.accepting /\ impact.work = 0
    => reopened \/ (~acceptingNewJobs /\ work = 0)

SignalledSawIdle ==
    phase = "signalled" => impact # Unbound /\ ~impact.accepting /\ impact.work = 0

StopInv ==
    /\ GateTypeOK /\ StopTypeOK
    /\ OwnerHoldsClosedGate /\ OrdinaryDrainHolds /\ ClosedGateIsHeld
    /\ HeldBy /\ RequestsOfPhase /\ SeenIdleIsIdle /\ SignalledSawIdle
=============================================================================
