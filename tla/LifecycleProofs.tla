--------------------------- MODULE LifecycleProofs ---------------------------
(* The theorems of RuntimeDrainGate, RuntimeStop and LifecycleReservations. *)
EXTENDS RuntimeStop, LifecycleReservations, TLAPS

------------------------------------------------------------------------------
(* The theorems of RuntimeDrainGate and of its clients in RuntimeStop.       *)

\* The gate keeps the budget of a call within the call's own deadline, and
\* within every deadline it has already been held to (validate, 39).
LEMMA ShortestBudget ==
    ASSUME GateTypeOK, NEW t \in Targets
    PROVE  /\ Shortest(t) \in Times
           /\ Shortest(t) <= t.deadline
           /\ Shortest(t) <= Budget
           /\ Checked(t) \in Targets
           /\ SameTarget(Checked(t), t)
           /\ Checked(t).deadline = Shortest(t)
           /\ Checked(t) # Unbound
<1>1. t.deadline \in Times /\ DeadlineOf(owner) \in Times /\ DeadlineOf(cancelled) \in Times
      BY GateAssumption DEF GateTypeOK, DeadlineOf, Targets, Times
<1>2. Shortest(t) \in Times /\ Shortest(t) <= t.deadline /\ Shortest(t) <= Budget
      BY <1>1 DEF Shortest, Budget, Earlier, Times
<1>3. /\ Checked(t) \in Targets
      /\ Checked(t).identity = t.identity
      /\ Checked(t).deadline = Shortest(t)
      BY <1>2 DEF Checked, Targets
<1> QED BY <1>2, <1>3, GateAssumption DEF SameTarget

-----------------------------------------------------------------------------
(* The gate on its own *)

\* Every step of the gate keeps its types and never lets a target that was
\* retired hold it.
LEMMA GateStep ==
    ASSUME GateTypeOK, OwnerHoldsClosedGate, [GateNext]_gateVars
    PROVE  GateTypeOK' /\ OwnerHoldsClosedGate' /\ Budget' <= Budget
<1> USE GateAssumption
<1>0. DeadlineOf(owner) \in Times /\ DeadlineOf(cancelled) \in Times /\ MaxTime \in Nat
      BY DEF GateTypeOK, DeadlineOf, Targets, Times
<1>1. CASE Begin
  <2>1. Retired \in {owner, cancelled, Binding}
        BY DEF Retired
  <2>2. GateTypeOK'
    <3>1. Binding # Unbound => Binding.deadline \in Int
          BY DEF Targets, Times
    <3>2. Retired # Unbound =>
             Binding # Unbound /\ SameTarget(Binding, Retired) /\ Retired.deadline <= Binding.deadline
          BY <2>1, <3>1 DEF GateTypeOK, SameTarget
    <3>3. Retired \in Targets \cup {Unbound}
          BY <2>1 DEF GateTypeOK
    <3>4. owner' = Unbound /\ cancelled' = Retired /\ acceptingNewJobs' = FALSE
          /\ now' = now /\ work' = work
          BY <1>1 DEF Begin
    <3> QED BY <3>2, <3>3, <3>4 DEF GateTypeOK
  <2>3. OwnerHoldsClosedGate'
        BY <1>1 DEF Begin, OwnerHoldsClosedGate
  <2>4. DeadlineOf(Retired) <= Budget
        BY <1>0 DEF Retired, Budget, Earlier, DeadlineOf, GateTypeOK, OwnerHoldsClosedGate,
                    Targets, Times
  <2>5. Budget' = DeadlineOf(Retired)
    <3>1. DeadlineOf(Retired) \in Times
          BY <1>0, <2>1 DEF DeadlineOf, Targets, Times
    <3>2. Budget' = Earlier(MaxTime, DeadlineOf(Retired))
          BY <1>1 DEF Begin, Budget, DeadlineOf
    <3> QED BY <3>1, <3>2 DEF Earlier, Times
  <2> QED BY <2>2, <2>3, <2>4, <2>5
<1>2. CASE Cancel
      BY <1>0, <1>2 DEF Cancel, GateTypeOK, OwnerHoldsClosedGate, Budget, Earlier, DeadlineOf, Times
<1>3. ASSUME NEW t \in Targets, BeginFor(t)
      PROVE  GateTypeOK' /\ OwnerHoldsClosedGate' /\ Budget' <= Budget
  <2>1. SameTarget(Binding, t) /\ Binding # Unbound /\ t.deadline <= Binding.deadline
        BY <1>3 DEF BeginFor, MayBegin, Valid
  <2>2. cancelled = Unbound
        BY <1>3, <2>1 DEF BeginFor, MayBegin, GateTypeOK, SameTarget
  <2>3. /\ owner' = Checked(t) /\ cancelled' = Unbound /\ ~acceptingNewJobs'
        /\ acceptingNewJobs' \in BOOLEAN /\ now' = now /\ work' = work
        BY <1>3, <2>2 DEF BeginFor
  <2>4. t.deadline \in Int /\ Binding.deadline \in Int /\ Checked(t).deadline <= Binding.deadline
        BY <2>1, ShortestBudget DEF Targets, Times
  <2>5. GateTypeOK'
        BY <2>1, <2>3, <2>4, ShortestBudget DEF GateTypeOK, SameTarget
  <2>6. OwnerHoldsClosedGate'
        BY <2>3 DEF OwnerHoldsClosedGate
  <2>7. Budget' = Earlier(Shortest(t), MaxTime)
        BY <2>3, ShortestBudget DEF Budget, DeadlineOf
  <2>8. Budget' <= Budget
        BY <1>0, <2>7, ShortestBudget DEF Earlier, Budget, Times
  <2> QED BY <2>5, <2>6, <2>8
<1>4. ASSUME NEW t \in Targets, CancelFor(t)
      PROVE  GateTypeOK' /\ OwnerHoldsClosedGate' /\ Budget' <= Budget
  <2>1. SameTarget(Binding, t) /\ Binding # Unbound /\ t.deadline <= Binding.deadline
        BY <1>4 DEF CancelFor, MayCancel, Valid
  <2>3. /\ owner' = Unbound /\ cancelled' = Checked(t)
        /\ acceptingNewJobs' \in BOOLEAN /\ now' = now /\ work' = work
        BY <1>4 DEF CancelFor
  <2>4. t.deadline \in Int /\ Binding.deadline \in Int /\ Checked(t).deadline <= Binding.deadline
        BY <2>1, ShortestBudget DEF Targets, Times
  <2>5. GateTypeOK'
        BY <2>1, <2>3, <2>4, ShortestBudget DEF GateTypeOK, SameTarget
  <2>6. OwnerHoldsClosedGate'
        BY <2>3 DEF OwnerHoldsClosedGate
  <2>7. Budget' = Earlier(MaxTime, Shortest(t))
        BY <2>3, ShortestBudget DEF Budget, DeadlineOf
  <2>8. Budget' <= Budget
        BY <1>0, <2>7, ShortestBudget DEF Earlier, Budget, Times
  <2> QED BY <2>5, <2>6, <2>8
<1>5. CASE Acquire \/ Release \/ Tick \/ UNCHANGED gateVars
  <2>1. acceptingNewJobs' = acceptingNewJobs /\ owner' = owner /\ cancelled' = cancelled
        BY <1>5 DEF Acquire, Release, Tick, gateVars
  <2>2. now' \in Times /\ work' \in Nat
        BY <1>5 DEF Acquire, Release, Tick, gateVars, GateTypeOK, Times
  <2>3. Budget' = Budget /\ Budget \in Int
        BY <1>0, <2>1 DEF Budget, DeadlineOf, Earlier, Times
  <2> QED BY <2>1, <2>2, <2>3 DEF GateTypeOK, OwnerHoldsClosedGate
<1> QED BY <1>1, <1>2, <1>3, <1>4, <1>5 DEF GateNext

LEMMA GateInitOK == GateInit => GateTypeOK /\ OwnerHoldsClosedGate
BY GateAssumption DEF GateInit, GateTypeOK, OwnerHoldsClosedGate, Times

\* A target holds the gate only while it is closed and was not retired, for
\* every order of calls, every target and every deadline.
THEOREM GateSafe == GateSpec => [](GateTypeOK /\ OwnerHoldsClosedGate)
BY GateInitOK, GateStep, PTL DEF GateSpec

\* No sequence of begins, cancels and retirements gives a cleanup more time.
THEOREM GateBudget == GateSpec => BudgetNeverRenewed
BY GateSafe, GateStep, PTL DEF GateSpec, BudgetNeverRenewed
-----------------------------------------------------------------------------
(* The gate and its two clients *)

LEMMA StopInitOK == StopInit => StopInv
BY GateInitOK DEF StopInit, StopInv, StopTypeOK, OrdinaryDrainHolds, ClosedGateIsHeld, HeldBy,
                  RequestsOfPhase, SeenIdleIsIdle, SignalledSawIdle, GateInit, OwnerHoldsClosedGate

\* A step of a client, or of the admission it guards, is a step of the gate.
LEMMA StopStepsGate ==
    ASSUME StopInv, [StopNext]_stopVars
    PROVE  [GateNext]_gateVars
<1>1. ASSUME NEW m \in requests, ArriveBegin(m) \/ ArriveCancel(m)
      PROVE  [GateNext]_gateVars
      BY <1>1 DEF ArriveBegin, ArriveCancel, GateNext, StopInv, StopTypeOK
<1>2. CASE OrdinaryBegin \/ OrdinaryCancel \/ Admission
      BY <1>2 DEF OrdinaryBegin, OrdinaryCancel, Admission, GateNext
<1>3. CASE AskDrain \/ Snapshot \/ Signal \/ GiveUp \/ UNCHANGED stopVars
      BY <1>3 DEF AskDrain, Snapshot, Signal, GiveUp, stopVars
<1> QED BY <1>1, <1>2, <1>3 DEF StopNext

LEMMA StopStep ==
    ASSUME StopInv, [StopNext]_stopVars
    PROVE  StopInv'
<1>1. GateTypeOK' /\ OwnerHoldsClosedGate'
      BY StopStepsGate, GateStep DEF StopInv
<1> DEFINE Rest == /\ StopTypeOK /\ OrdinaryDrainHolds /\ ClosedGateIsHeld /\ HeldBy
                   /\ RequestsOfPhase /\ SeenIdleIsIdle /\ SignalledSawIdle
<1> SUFFICES Rest'
    BY <1>1 DEF StopInv
<1> USE DEF StopInv
<1>2. CASE AskDrain
  <2>1. PICK d \in Times :
           requests' = requests \cup {[kind |-> "begin", identity |-> Launched, deadline |-> d]}
        BY <1>2 DEF AskDrain, Send
  <2>2. /\ \A m \in requests' : TargetOf(m) \in Targets /\ m.kind = "begin"
        /\ \A m, n \in requests' : m = n
        BY <1>2, <2>1, StopAssumption DEF AskDrain, RequestsOfPhase, TargetOf, Targets
  <2> QED BY <1>2, <2>2 DEF AskDrain, gateVars, StopTypeOK, OrdinaryDrainHolds, ClosedGateIsHeld,
             HeldBy, RequestsOfPhase, SeenIdleIsIdle, SignalledSawIdle
<1>3. CASE GiveUp
  <2>1. PICK d \in Times :
           requests' = requests \cup {[kind |-> "cancel", identity |-> Launched, deadline |-> d]}
        BY <1>3 DEF GiveUp, Send
  <2>2. \A m \in requests' : TargetOf(m) \in Targets /\ (m \in requests \/ m.kind = "cancel")
        BY <1>3, <2>1, StopAssumption DEF StopTypeOK, TargetOf, Targets
  <2> QED BY <1>3, <2>2 DEF GiveUp, gateVars, StopTypeOK, OrdinaryDrainHolds, ClosedGateIsHeld,
             HeldBy, RequestsOfPhase, SeenIdleIsIdle, SignalledSawIdle
<1>4. ASSUME NEW m \in requests, ArriveBegin(m)
      PROVE  Rest'
  <2>1. CASE MayBegin(TargetOf(m))
    <3>1. /\ owner' = Checked(TargetOf(m)) /\ ~acceptingNewJobs' /\ work' = work
          /\ ~reopened' /\ inspecting' = (phase = "asked") /\ impact' = impact
          /\ phase' = phase /\ requests' = requests \ {m} /\ drained' = drained
          BY <1>4, <2>1 DEF ArriveBegin, BeginFor
    <3>2. owner' # Unbound
          BY <3>1, ShortestBudget DEF StopTypeOK
    <3>3. ~drained
          BY <2>1 DEF MayBegin, Holds, HeldBy, OrdinaryDrainHolds
    <3>4. impact = Unbound /\ phase # "idle"
          BY <1>4 DEF ArriveBegin, RequestsOfPhase
    <3>5. \A n \in requests' : n.kind # "begin"
          BY <1>4, <3>1 DEF ArriveBegin, RequestsOfPhase
    <3>6. inspecting' \in BOOLEAN /\ reopened' \in BOOLEAN
          BY <1>4, <2>1 DEF ArriveBegin
    <3>7. StopTypeOK'
          BY <3>1, <3>6 DEF StopTypeOK, TargetOf
    <3>8. RequestsOfPhase'
          BY <3>1, <3>4, <3>5 DEF RequestsOfPhase
    <3> QED BY <3>1, <3>2, <3>3, <3>4, <3>7, <3>8 DEF OrdinaryDrainHolds, ClosedGateIsHeld,
               HeldBy, SeenIdleIsIdle, SignalledSawIdle
  <2>2. CASE ~MayBegin(TargetOf(m))
        BY <1>4, <2>2 DEF ArriveBegin, gateVars, StopTypeOK, OrdinaryDrainHolds, ClosedGateIsHeld,
               HeldBy, RequestsOfPhase, SeenIdleIsIdle, SignalledSawIdle
  <2> QED BY <2>1, <2>2
<1>5. ASSUME NEW m \in requests, ArriveCancel(m)
      PROVE  Rest'
  <2>1. /\ phase = "restoring" /\ requests' = requests \ {m}
        /\ UNCHANGED <<phase, inspecting, impact, drained, reopened>>
        BY <1>5 DEF ArriveCancel, RequestsOfPhase
  <2>2. CASE MayCancel(TargetOf(m))
    <3>1. owner' = Unbound /\ acceptingNewJobs'
          BY <1>5, <2>2 DEF ArriveCancel, CancelFor
    <3>2. ~drained
          BY <2>2 DEF MayCancel, Holds, HeldBy, OrdinaryDrainHolds
    <3>3. StopTypeOK' /\ RequestsOfPhase'
          BY <2>1 DEF StopTypeOK, RequestsOfPhase, TargetOf
    <3> QED BY <2>1, <3>1, <3>2, <3>3 DEF OrdinaryDrainHolds, ClosedGateIsHeld,
               HeldBy, SeenIdleIsIdle, SignalledSawIdle
  <2>3. CASE ~MayCancel(TargetOf(m))
        BY <1>5, <2>1, <2>3 DEF ArriveCancel, gateVars, StopTypeOK, OrdinaryDrainHolds,
           ClosedGateIsHeld, HeldBy, RequestsOfPhase, SeenIdleIsIdle, SignalledSawIdle
  <2> QED BY <2>2, <2>3
<1>6. CASE Alive /\ Snapshot
  <2>1. /\ phase # "signalled" /\ inspecting /\ ~inspecting' /\ inspecting' \in BOOLEAN
        /\ impact'.accepting = acceptingNewJobs /\ impact'.work = work
        /\ UNCHANGED <<acceptingNewJobs, owner, work, phase, requests, drained, reopened>>
        BY <1>6 DEF Alive, Snapshot, gateVars
  <2>2. StopTypeOK'
        BY <2>1 DEF StopTypeOK, GateTypeOK, TargetOf
  <2>3. RequestsOfPhase'
        BY <2>1 DEF RequestsOfPhase
  <2> QED BY <2>1, <2>2, <2>3 DEF OrdinaryDrainHolds, ClosedGateIsHeld, HeldBy, SeenIdleIsIdle,
          SignalledSawIdle
<1>7. CASE Signal
      BY <1>7 DEF Signal, gateVars, StopTypeOK, OrdinaryDrainHolds, ClosedGateIsHeld, HeldBy,
         RequestsOfPhase, SeenIdleIsIdle, SignalledSawIdle
<1>8. CASE OrdinaryBegin
      BY <1>8 DEF OrdinaryBegin, Begin, clientVars, StopTypeOK, OrdinaryDrainHolds,
         ClosedGateIsHeld, HeldBy, RequestsOfPhase, SeenIdleIsIdle, SignalledSawIdle
<1>9. CASE OrdinaryCancel
      BY <1>9 DEF OrdinaryCancel, Cancel, clientVars, StopTypeOK, OrdinaryDrainHolds,
         ClosedGateIsHeld, HeldBy, RequestsOfPhase, SeenIdleIsIdle, SignalledSawIdle
<1>10. CASE Admission
      BY <1>10 DEF Admission, Acquire, Release, Tick, clientVars, StopTypeOK, OrdinaryDrainHolds,
         ClosedGateIsHeld, HeldBy, RequestsOfPhase, SeenIdleIsIdle, SignalledSawIdle
<1>11. CASE UNCHANGED stopVars
      BY <1>11 DEF stopVars, clientVars, gateVars, StopTypeOK, OrdinaryDrainHolds,
         ClosedGateIsHeld, HeldBy, RequestsOfPhase, SeenIdleIsIdle, SignalledSawIdle
<1> QED BY <1>2, <1>3, <1>4, <1>5, <1>6, <1>7, <1>8, <1>9, <1>10, <1>11 DEF StopNext

\* The invariant of the gate and its clients: held by the cleanup, drained by
\* the last ordinary call, or open, whatever arrives late and in any order.
THEOREM StopInvariant == StopSpec => []StopInv
BY StopInitOK, StopStep, PTL DEF StopSpec

\* A late cancel of a cleanup never reopens the gate of a newer ordinary stop,
\* for every set of identities, every binding and every deadline.
THEOREM OrdinaryDrain == StopSpec => []OrdinaryDrainHolds
BY StopInvariant, PTL DEF StopInv

\* Admission is never closed with nobody left who may open it.
THEOREM NoOrphanedDrain == StopSpec => []ClosedGateIsHeld
BY StopInvariant, PTL DEF StopInv

\* The cleanup signals the process group only while nothing is admitted,
\* unless an ordinary cancel reopened the gate in between.
THEOREM CleanupFence == StopSpec => []SignalledIsIdle
<1>1. StopInv => SignalledIsIdle
      BY DEF StopInv, SeenIdleIsIdle, SignalledSawIdle, SignalledIsIdle
<1> QED BY <1>1, StopInvariant, PTL

\* The runtime of the two clients is a run of the gate alone: nothing they do
\* goes around begin, cancel and the admission slots.
THEOREM StopImplementsGate == StopSpec => GateSpec
<1>1. StopInit => GateInit
      BY DEF StopInit
<1> QED BY <1>1, StopInvariant, StopStepsGate, PTL DEF StopSpec, GateSpec

------------------------------------------------------------------------------
(* The theorem of LifecycleReservations: what has ended stays as it ended.   *)
(* A cancel or a replacement may fall between any two steps of an evaluation, *)
(* so the invariant says what the evaluation may still believe: what it is    *)
(* carrying out can no longer be taken back, and while nothing was persisted  *)
(* since it began to look, its reservation has not ended.                     *)

--------------------------------------------------------------------------
(* The inductive invariant *)

Phases == {"waiting", "blocked", "executing", "reconnecting", "handoff-ready", "handing-off",
           "completed", "cancelled", "failed"}
Launchers == (Nat \X Nat) \cup {None}
Reservations ==
    [kind : RequestKinds, phase : Phases, initial : BOOLEAN, before : Launchers, attempts : Nat,
     cleanup : {"clear", "pending", "uncertain"}, pid : BOOLEAN, suppressed : BOOLEAN]
Steps == {"reconcile", "inspect", "act", "launched", "wait"}

ReservationsTypeOK ==
    /\ records \in Seq(Reservations)
    /\ preparing \in [kind : RequestKinds, replaces : SUBSET Nat] \cup {None}
    /\ evaluation \in [of : DOMAIN records, step : Steps, current : BOOLEAN] \cup {None}
    /\ runtimeLock \in Launchers /\ managed \in Launchers

\* A claimed reservation cannot be cancelled or replaced while it is carried out.
ActsOnExecuting ==
    evaluation # None /\ evaluation.step \in {"act", "launched", "wait"} => Executing(Rec.phase)

\* What an evaluation saw is still so while the revision is the one it began with.
SeesPending == evaluation # None /\ evaluation.current => ~Terminal(Rec.phase)

ReservationsInv == ReservationsTypeOK /\ ActsOnExecuting /\ SeesPending

Keeps == \A i \in DOMAIN records : Terminal(records[i].phase) => records'[i] = records[i]

\* The end of an evaluation.
Settled == records' \in Seq(Reservations) /\ evaluation' = None /\ Keeps

--------------------------------------------------------------------------
(* What the ways to end an evaluation do *)

LEMMA RunTyped == ASSUME ReservationsTypeOK PROVE Run \in Launchers
BY DEF ReservationsTypeOK, Run, Launchers

LEMMA OwnerTyped ==
    ASSUME ReservationsTypeOK, NEW i \in DOMAIN records PROVE AttemptOwner(i) \in Launchers
<1>1. i \in Nat /\ records[i] \in Reservations BY DEF ReservationsTypeOK
<1> QED BY <1>1 DEF AttemptOwner, Launchers, Reservations

LEMMA SameEntries ==
    ASSUME ReservationsTypeOK, NEW i \in DOMAIN records, NEW r \in Reservations,
           records' = [records EXCEPT ![i] = r]
    PROVE  /\ records' \in Seq(Reservations) /\ DOMAIN records' = DOMAIN records /\ records'[i] = r
           /\ \A j \in DOMAIN records \ {i} : records'[j] = records[j]
BY DEF ReservationsTypeOK

LEMMA FailedTyped ==
    ASSUME ReservationsTypeOK, NEW i \in DOMAIN records, NEW c \in BOOLEAN, NEW t \in BOOLEAN,
           ~Terminal(records[i].phase), records' = Failed(i, c, t)
    PROVE  records' \in Seq(Reservations) /\ DOMAIN records' = DOMAIN records /\ Keeps
<1> DEFINE fate == IF Retries(i, c, t) THEN "waiting"
                    ELSE IF records[i].suppressed /\ c THEN "cancelled" ELSE "failed"
           r == IF ~records[i].initial THEN [records[i] EXCEPT !.phase = "failed"]
                ELSE [records[i] EXCEPT !.phase = fate, !.cleanup = IF c THEN "clear" ELSE "uncertain"]
<1>1. records[i] \in Reservations BY DEF ReservationsTypeOK
<1>2. fate \in Phases BY DEF Phases
<1>3. r \in Reservations
  <2> HIDE DEF fate
  <2> QED BY <1>1, <1>2 DEF Reservations, Phases
<1>4. records' = [records EXCEPT ![i] = r]
  <2>1. CASE ~records[i].initial BY <2>1 DEF Failed, Phased
  <2>2. CASE records[i].initial BY <2>2 DEF Failed
  <2> QED BY <2>1, <2>2
<1> HIDE DEF r
<1> QED BY <1>3, <1>4, SameEntries DEF Keeps

LEMMA FailsSettles ==
    ASSUME ReservationsTypeOK, evaluation # None, NEW c \in BOOLEAN, NEW t \in BOOLEAN, FailsWith(c, t)
    PROVE  Settled
<1>1. evaluation.of \in DOMAIN records BY DEF ReservationsTypeOK
<1>2. CASE Terminal(Rec.phase) BY <1>2 DEF FailsWith, Settled, Keeps, ReservationsTypeOK
<1>3. CASE ~Terminal(Rec.phase)
      BY <1>1, <1>3, FailedTyped DEF FailsWith, Settled, Rec
<1> QED BY <1>2, <1>3

LEMMA ConcludesSettles ==
    ASSUME ReservationsTypeOK, evaluation # None, ~Terminal(Rec.phase), NEW p \in Phases, Concludes(p)
    PROVE  Settled
<1> DEFINE i == evaluation.of
           r == [records[i] EXCEPT !.phase = p, !.cleanup = IF p = "completed" THEN "clear" ELSE @]
<1>1. i \in DOMAIN records /\ records[i] \in Reservations BY DEF ReservationsTypeOK
<1>2. r \in Reservations BY <1>1 DEF Reservations
<1>3. records' = [records EXCEPT ![i] = r] BY <1>1 DEF Concludes
<1> HIDE DEF r
<1>4. /\ records' \in Seq(Reservations)
      /\ \A j \in DOMAIN records \ {i} : records'[j] = records[j]
      BY <1>1, <1>2, <1>3, SameEntries
<1> QED BY <1>4 DEF Concludes, Settled, Keeps, Rec

LEMMA LeavesSettles == ASSUME ReservationsTypeOK, Leaves PROVE Settled
BY DEF Leaves, Settled, Keeps, ReservationsTypeOK

--------------------------------------------------------------------------
(* One step *)

\* While no evaluation goes on, only the types are left to keep.
LEMMA SettledKeepsInv ==
    ASSUME Settled, runtimeLock' \in Launchers, managed' \in Launchers,
           preparing' \in [kind : RequestKinds, replaces : SUBSET Nat] \cup {None}
    PROVE  ReservationsInv' /\ Keeps
BY DEF Settled, ReservationsInv, ReservationsTypeOK, ActsOnExecuting, SeesPending

\* A change the user makes: the reservation it changes was open, and no
\* evaluation carries it out or has seen it since.
LEMMA UserChanges ==
    ASSUME ReservationsInv, NEW i \in DOMAIN records, NEW p \in Phases, Cancellable(records[i].phase),
           records' = Phased(i, p), evaluation' = Outdated,
           UNCHANGED <<preparing, runtimeLock, managed>>
    PROVE  ReservationsInv' /\ Keeps
<1> DEFINE r == [records[i] EXCEPT !.phase = p]
<1>1. records[i] \in Reservations BY DEF ReservationsInv, ReservationsTypeOK
<1>2. r \in Reservations BY <1>1 DEF Reservations
<1>3. records' = [records EXCEPT ![i] = r] BY DEF Phased
<1> HIDE DEF r
<1>4. /\ records' \in Seq(Reservations) /\ DOMAIN records' = DOMAIN records
      /\ \A j \in DOMAIN records \ {i} : records'[j] = records[j]
      BY <1>2, <1>3, SameEntries DEF ReservationsInv
<1>5. Keeps BY <1>4 DEF Keeps, Cancellable, Terminal
<1>6. ReservationsTypeOK' BY <1>4 DEF ReservationsInv, ReservationsTypeOK, Outdated
<1>7. ActsOnExecuting'
  <2> SUFFICES ASSUME evaluation' # None, evaluation'.step \in {"act", "launched", "wait"}
               PROVE  Executing(records'[evaluation'.of].phase)
      BY DEF ActsOnExecuting, Rec
  <2>1. evaluation # None BY DEF Outdated
  <2>2. evaluation'.of = evaluation.of /\ evaluation'.step = evaluation.step /\ evaluation.of \in DOMAIN records
        BY <2>1 DEF Outdated, ReservationsInv, ReservationsTypeOK
  <2>3. Executing(records[evaluation.of].phase)
        BY <2>1, <2>2 DEF ReservationsInv, ActsOnExecuting, Rec
  <2>4. evaluation.of # i BY <2>3 DEF Executing, Cancellable
  <2> QED BY <2>2, <2>3, <2>4, <1>4
<1>8. SeesPending'
  <2>1. ~(evaluation' # None /\ evaluation'.current) BY DEF Outdated, ReservationsInv, ReservationsTypeOK
  <2> QED BY <2>1 DEF SeesPending
<1> QED BY <1>5, <1>6, <1>7, <1>8 DEF ReservationsInv

LEMMA SuppressKeeps ==
    ASSUME ReservationsInv, NEW i \in DOMAIN records, SuppressRetry(i)
    PROVE  ReservationsInv' /\ Keeps
<1> DEFINE r == [records[i] EXCEPT !.suppressed = TRUE]
<1>1. records[i] \in Reservations BY DEF ReservationsInv, ReservationsTypeOK
<1>2. r \in Reservations /\ r.phase = records[i].phase BY <1>1 DEF Reservations
<1>3. records' = [records EXCEPT ![i] = r] BY DEF SuppressRetry, Suppressed
<1> HIDE DEF r
<1>4. /\ records' \in Seq(Reservations) /\ DOMAIN records' = DOMAIN records /\ records'[i] = r
      /\ \A j \in DOMAIN records \ {i} : records'[j] = records[j]
      BY <1>2, <1>3, SameEntries DEF ReservationsInv
<1>5. \A j \in DOMAIN records : records'[j].phase = records[j].phase BY <1>2, <1>4
<1>6. evaluation' = Outdated BY DEF SuppressRetry
<1>7. Keeps BY <1>4 DEF Keeps, SuppressRetry, Executing, Terminal
<1>8. ReservationsTypeOK'
      BY <1>4, <1>6 DEF ReservationsInv, ReservationsTypeOK, Outdated, SuppressRetry
<1>9. ActsOnExecuting'
      BY <1>5, <1>6 DEF ReservationsInv, ReservationsTypeOK, ActsOnExecuting, Outdated, Rec
<1>10. SeesPending'
  <2>1. ~(evaluation' # None /\ evaluation'.current)
        BY <1>6 DEF Outdated, ReservationsInv, ReservationsTypeOK
  <2> QED BY <2>1 DEF SeesPending
<1> QED BY <1>7, <1>8, <1>9, <1>10 DEF ReservationsInv

LEMMA PreparedKeeps == ASSUME ReservationsInv, Prepared PROVE ReservationsInv' /\ Keeps
<1>1. CASE UNCHANGED <<records, evaluation>>
      BY <1>1 DEF Prepared, ReservationsInv, ReservationsTypeOK, ActsOnExecuting, SeesPending, Rec, Keeps
<1>2. CASE /\ Replaces(preparing.replaces)
           /\ records' = Append(Replaced(preparing.replaces), Reservation(preparing.kind))
           /\ evaluation' = Outdated
  <2> DEFINE others == Replaced(preparing.replaces)
             new == Reservation(preparing.kind)
  <2>1. others \in Seq(Reservations) /\ DOMAIN others = DOMAIN records
    <3>1. ASSUME NEW j \in DOMAIN records PROVE others[j] \in Reservations
      <4>1. records[j] \in Reservations BY DEF ReservationsInv, ReservationsTypeOK
      <4>2. [records[j] EXCEPT !.phase = "cancelled"] \in Reservations
            BY <4>1 DEF Reservations, Phases
      <4> QED BY <4>1, <4>2 DEF Replaced
    <3> QED BY <3>1 DEF Replaced, ReservationsInv, ReservationsTypeOK
  <2>2. new \in Reservations
    <3>1. Run \in Launchers BY RunTyped DEF ReservationsInv
    <3>2. preparing.kind \in RequestKinds BY DEF Prepared, ReservationsInv, ReservationsTypeOK
    <3> QED BY <3>1, <3>2 DEF Reservation, Reservations, Phases, Launchers
  <2>3. \A j \in DOMAIN records :
           others[j] = IF j \in preparing.replaces THEN [records[j] EXCEPT !.phase = "cancelled"] ELSE records[j]
        BY DEF Replaced
  <2> HIDE DEF others, new
  <2>4. /\ records' \in Seq(Reservations) /\ DOMAIN records \subseteq DOMAIN records'
        /\ \A j \in DOMAIN records : records'[j] = others[j]
        BY <1>2, <2>1, <2>2 DEF others, new
  <2>5. \A j \in DOMAIN records : ~Cancellable(records[j].phase) => records'[j] = records[j]
        BY <1>2, <2>3, <2>4 DEF Replaces
  <2>6. Keeps BY <2>5 DEF Keeps, Cancellable, Terminal
  <2>7. ReservationsTypeOK' BY <1>2, <2>4 DEF Prepared, ReservationsInv, ReservationsTypeOK, Outdated
  <2>8. ActsOnExecuting'
    <3> SUFFICES ASSUME evaluation' # None, evaluation'.step \in {"act", "launched", "wait"}
                 PROVE  Executing(records'[evaluation'.of].phase)
        BY DEF ActsOnExecuting, Rec
    <3>1. evaluation # None BY <1>2 DEF Outdated
    <3>2. evaluation'.of = evaluation.of /\ evaluation'.step = evaluation.step /\ evaluation.of \in DOMAIN records
          BY <1>2, <3>1 DEF Outdated, ReservationsInv, ReservationsTypeOK
    <3>3. Executing(records[evaluation.of].phase)
          BY <3>1, <3>2 DEF ReservationsInv, ActsOnExecuting, Rec
    <3> QED BY <2>5, <3>2, <3>3 DEF Executing, Cancellable
  <2>9. SeesPending'
    <3>1. ~(evaluation' # None /\ evaluation'.current)
          BY <1>2 DEF Outdated, ReservationsInv, ReservationsTypeOK
    <3> QED BY <3>1 DEF SeesPending
  <2> QED BY <2>6, <2>7, <2>8, <2>9 DEF ReservationsInv
<1> QED BY <1>1, <1>2 DEF Prepared

\* The look of an evaluation, and what it begins.
LEMMA EvaluateBeginsKeeps == ASSUME ReservationsInv, EvaluateBegins PROVE ReservationsInv' /\ Keeps
<1>1. PICK i \in DOMAIN records :
         /\ Active(i)
         /\ \/ (Begins(i, "reconcile") \/ Begins(i, "inspect")) /\ UNCHANGED records
            \/ records' = Failed(i, records[i].cleanup = "clear", FALSE) /\ UNCHANGED evaluation
      BY DEF EvaluateBegins
<1>2. ~Terminal(records[i].phase) BY <1>1 DEF Active, Pending
<1>3. CASE (Begins(i, "reconcile") \/ Begins(i, "inspect")) /\ UNCHANGED records
  <2>1. ReservationsTypeOK'
    <3>1. DOMAIN records' = DOMAIN records BY <1>3
    <3>2. PICK step \in Steps : evaluation' = [of |-> i, step |-> step, current |-> TRUE]
          BY <1>3 DEF Begins, Steps
    <3>3. evaluation' \in [of : DOMAIN records', step : Steps, current : BOOLEAN] BY <3>1, <3>2
    <3> QED BY <1>3, <3>3 DEF EvaluateBegins, ReservationsInv, ReservationsTypeOK
  <2>2. ActsOnExecuting' BY <1>3 DEF Begins, ActsOnExecuting
  <2>3. SeesPending' BY <1>2, <1>3 DEF Begins, SeesPending, Rec
  <2> QED BY <1>3, <2>1, <2>2, <2>3 DEF ReservationsInv, Keeps
<1>4. CASE records' = Failed(i, records[i].cleanup = "clear", FALSE) /\ UNCHANGED evaluation
  <2>1. records' \in Seq(Reservations) /\ Keeps BY <1>2, <1>4, FailedTyped DEF ReservationsInv
  <2>2. Settled BY <1>4, <2>1 DEF Settled, EvaluateBegins
  <2> QED BY <2>2, SettledKeepsInv DEF EvaluateBegins, ReservationsInv, ReservationsTypeOK
<1> QED BY <1>1, <1>3, <1>4

LEMMA ReconcileKeeps == ASSUME ReservationsInv, ReconcileRecord PROVE ReservationsInv' /\ Keeps
<1>1. ReservationsTypeOK /\ evaluation # None /\ evaluation.of \in DOMAIN records
      BY DEF ReconcileRecord, At, ReservationsInv, ReservationsTypeOK
<1>2. /\ preparing' \in [kind : RequestKinds, replaces : SUBSET Nat] \cup {None}
      /\ managed' \in Launchers
      BY <1>1 DEF ReconcileRecord, ReservationsTypeOK
<1>3. Settled /\ runtimeLock' \in Launchers
  <2>0. None \in Launchers /\ runtimeLock \in Launchers BY <1>1 DEF Launchers, ReservationsTypeOK
  <2>1. CASE ~Current BY <1>1, <2>0, <2>1, LeavesSettles, FailsSettles DEF ReconcileRecord
  <2>2. CASE Current
    <3>0. ~Terminal(Rec.phase) BY <1>1, <2>2 DEF ReservationsInv, SeesPending, Current
    <3>1. ASSUME NEW c \in BOOLEAN, NEW t \in BOOLEAN, FailsWith(c, t) PROVE Settled
          BY <1>1, <3>1, FailsSettles
    <3>2. ASSUME NEW p \in Phases, Concludes(p) PROVE Settled BY <1>1, <3>0, <3>2, ConcludesSettles
    <3>3. "waiting" \in Phases /\ "completed" \in Phases /\ "handoff-ready" \in Phases BY DEF Phases
    <3>4. CASE AttemptReconciled(evaluation.of)
          BY <3>4, <1>1, <2>0, <3>1, <3>2, <3>3, LeavesSettles DEF AttemptReconciled
    <3>5. CASE StopReconciled(evaluation.of)
          BY <3>5, <1>1, <2>0, <3>1, <3>2, <3>3, LeavesSettles DEF StopReconciled
    <3> QED BY <2>0, <2>2, <3>1, <3>2, <3>3, <3>4, <3>5 DEF ReconcileRecord
  <2> QED BY <2>1, <2>2
<1> QED BY <1>2, <1>3, SettledKeepsInv

LEMMA InspectKeeps == ASSUME ReservationsInv, Inspect PROVE ReservationsInv' /\ Keeps
<1>1. /\ ReservationsTypeOK /\ evaluation # None /\ evaluation.of \in DOMAIN records
      /\ None \in Launchers
      BY DEF Inspect, At, ReservationsInv, ReservationsTypeOK, Launchers
<1>2. /\ preparing' \in [kind : RequestKinds, replaces : SUBSET Nat] \cup {None}
      /\ managed' \in Launchers /\ runtimeLock' \in Launchers
      BY <1>1 DEF Inspect, ReservationsTypeOK
<1>3. CASE Settled BY <1>2, <1>3, SettledKeepsInv
<1>4. CASE Current /\ ClaimsExecution(evaluation.of)
  <2>0. ~Terminal(Rec.phase) BY <1>1, <1>4 DEF ReservationsInv, SeesPending, Current
  <2>1. CASE FailsWith(FALSE, FALSE) BY <1>1, <2>1, <1>3, FailsSettles
  <2>2. CASE records' = Claimed(evaluation.of) /\ StepsTo("act")
    <3> DEFINE i == evaluation.of
               r == [records[i] EXCEPT !.phase = "executing", !.before = Run,
                        !.attempts = IF records[i].initial THEN @ + 1 ELSE @,
                        !.cleanup = IF records[i].initial THEN "pending" ELSE @, !.pid = FALSE]
    <3>1. records[i] \in Reservations /\ Run \in Launchers BY <1>1, RunTyped DEF ReservationsTypeOK
    <3>2. r \in Reservations /\ r.phase = "executing"
      <4> DEFINE attempts == IF records[i].initial THEN records[i].attempts + 1 ELSE records[i].attempts
                 cleanup == IF records[i].initial THEN "pending" ELSE records[i].cleanup
      <4>1. attempts \in Nat /\ cleanup \in {"clear", "pending", "uncertain"} BY <3>1 DEF Reservations
      <4>2. r = [records[i] EXCEPT !.phase = "executing", !.before = Run,
                    !.attempts = attempts, !.cleanup = cleanup, !.pid = FALSE]
            BY <3>1 DEF Reservations
      <4> HIDE DEF attempts, cleanup, r
      <4> QED BY <3>1, <4>1, <4>2 DEF Reservations, Phases
    <3>3. records' = [records EXCEPT ![i] = r] BY <1>1, <2>2 DEF Claimed
    <3> HIDE DEF r
    <3>4. /\ records' \in Seq(Reservations) /\ DOMAIN records' = DOMAIN records /\ records'[i] = r
          /\ \A j \in DOMAIN records \ {i} : records'[j] = records[j]
          BY <1>1, <3>2, <3>3, SameEntries
    <3>5. evaluation' \in [of : DOMAIN records', step : Steps, current : BOOLEAN] /\ evaluation'.of = i
          BY <1>1, <2>2, <3>4 DEF StepsTo, ReservationsTypeOK, Steps
    <3>6. Keeps BY <2>0, <3>4 DEF Keeps, Rec
    <3>7. Rec'.phase = "executing" BY <3>2, <3>4, <3>5 DEF Rec
    <3> QED BY <1>2, <3>4, <3>5, <3>6, <3>7
            DEF ReservationsInv, ReservationsTypeOK, ActsOnExecuting, SeesPending, Executing, Terminal
  <2> QED BY <1>4, <2>1, <2>2 DEF ClaimsExecution
<1>5. ASSUME NEW p \in {"waiting", "blocked"}, Current, Concludes(p) PROVE Settled
  <2>1. ~Terminal(Rec.phase) BY <1>1, <1>5 DEF ReservationsInv, SeesPending, Current
  <2>2. p \in Phases BY DEF Phases
  <2> QED BY <1>1, <1>5, <2>1, <2>2, ConcludesSettles
<1>6. CASE FailsWith(FALSE, FALSE) BY <1>1, <1>3, <1>6, FailsSettles
<1>7. CASE Leaves BY <1>1, <1>3, <1>7, LeavesSettles
<1> QED BY <1>3, <1>4, <1>5, <1>6, <1>7 DEF Inspect, IsCurrent

\* What is carried out has not ended, whatever comes of it.
LEMMA ActsKeep ==
    ASSUME ReservationsInv,
           StartActs \/ LaunchAttempt \/ ReportLauncher \/ LauncherReady \/ AttemptCleaned \/ StopActs
    PROVE  ReservationsInv' /\ Keeps
<1>1. /\ ReservationsTypeOK /\ evaluation # None /\ evaluation.of \in DOMAIN records
      /\ Executing(Rec.phase) /\ ~Terminal(Rec.phase) /\ None \in Launchers
      /\ AttemptOwner(evaluation.of) \in Launchers
  <2>1. ReservationsTypeOK /\ evaluation # None /\ evaluation.of \in DOMAIN records
        BY DEF StartActs, LaunchAttempt, ReportLauncher, LauncherReady, AttemptCleaned, StopActs, At,
               ReservationsInv, ReservationsTypeOK
  <2>2. Executing(Rec.phase)
        BY <2>1 DEF StartActs, LaunchAttempt, ReportLauncher, LauncherReady, AttemptCleaned, StopActs, At,
                    ReservationsInv, ActsOnExecuting
  <2> QED BY <2>1, <2>2, OwnerTyped DEF Executing, Terminal, Launchers
<1>2. /\ preparing' \in [kind : RequestKinds, replaces : SUBSET Nat] \cup {None}
      /\ managed' \in Launchers /\ runtimeLock' \in Launchers
      BY <1>1 DEF StartActs, LaunchAttempt, ReportLauncher, LauncherReady, AttemptCleaned, StopActs,
                  ReservationsTypeOK
<1>3. CASE Settled BY <1>2, <1>3, SettledKeepsInv
<1>4. ASSUME NEW c \in BOOLEAN, NEW t \in BOOLEAN, FailsWith(c, t) PROVE Settled BY <1>1, <1>4, FailsSettles
<1>5. ASSUME NEW p \in Phases, Concludes(p) PROVE Settled BY <1>1, <1>5, ConcludesSettles
<1>6. CASE StartActs \/ LauncherReady \/ AttemptCleaned \/ StopActs
  <2>1. "completed" \in Phases /\ "handoff-ready" \in Phases /\ "blocked" \in Phases BY DEF Phases
  <2> QED BY <1>3, <1>4, <1>5, <1>6, <2>1 DEF StartActs, LauncherReady, AttemptCleaned, StopActs
<1>7. CASE LaunchAttempt
  <2>1. /\ UNCHANGED records /\ evaluation'.of = evaluation.of
        /\ evaluation' \in [of : DOMAIN records', step : Steps, current : BOOLEAN]
        BY <1>1, <1>7 DEF LaunchAttempt, StepsTo, ReservationsTypeOK, Steps
  <2> QED BY <1>1, <1>2, <2>1
          DEF ReservationsInv, ReservationsTypeOK, ActsOnExecuting, SeesPending, Rec, Keeps
<1>8. CASE ReportLauncher
  <2> DEFINE i == evaluation.of
             r == [records[i] EXCEPT !.phase = "reconnecting", !.pid = TRUE]
  <2>1. records[i] \in Reservations BY <1>1 DEF ReservationsTypeOK
  <2>2. r \in Reservations /\ r.phase = "reconnecting" BY <2>1 DEF Reservations, Phases
  <2>3. records' = [records EXCEPT ![i] = r] BY <1>1, <1>8 DEF ReportLauncher, Reported
  <2> HIDE DEF r
  <2>4. /\ records' \in Seq(Reservations) /\ DOMAIN records' = DOMAIN records /\ records'[i] = r
        /\ \A j \in DOMAIN records \ {i} : records'[j] = records[j]
        BY <1>1, <2>2, <2>3, SameEntries
  <2>5. evaluation' \in [of : DOMAIN records', step : Steps, current : BOOLEAN] /\ evaluation'.of = i
        BY <1>1, <1>8, <2>4 DEF ReportLauncher, StepsTo, ReservationsTypeOK, Steps
  <2>6. Keeps BY <1>1, <2>4 DEF Keeps, Rec
  <2>7. Rec'.phase = "reconnecting" BY <2>2, <2>4, <2>5 DEF Rec
  <2> QED BY <1>2, <2>4, <2>5, <2>6, <2>7
          DEF ReservationsInv, ReservationsTypeOK, ActsOnExecuting, SeesPending, Executing, Terminal
<1> QED BY <1>6, <1>7, <1>8

\* The rest changes neither a reservation nor what is known of it.
LEMMA RestKeeps ==
    ASSUME ReservationsInv, records' = records, evaluation' \in {evaluation, None},
           preparing' \in [kind : RequestKinds, replaces : SUBSET Nat] \cup {None},
           runtimeLock' \in Launchers, managed' \in Launchers
    PROVE  ReservationsInv' /\ Keeps
BY DEF ReservationsInv, ReservationsTypeOK, ActsOnExecuting, SeesPending, Rec, Keeps

LEMMA ReservationsStep ==
    ASSUME ReservationsInv, [ReservationsNext]_reservationVars PROVE ReservationsInv' /\ Keeps
<1>0. ReservationsTypeOK /\ None \in Launchers BY DEF ReservationsInv, Launchers
<1>1. CASE UNCHANGED reservationVars
      BY <1>1, <1>0, RestKeeps DEF reservationVars, ReservationsTypeOK
<1>2. ASSUME NEW kind \in RequestKinds, NEW replaces \in {{}} \cup {{i} : i \in DOMAIN records},
             Submit(kind, replaces)
      PROVE  ReservationsInv' /\ Keeps
  <2>1. replaces \in SUBSET Nat BY <1>0 DEF ReservationsTypeOK
  <2>2. preparing' \in [kind : RequestKinds, replaces : SUBSET Nat] BY <1>2, <2>1 DEF Submit
  <2> QED BY <1>0, <1>2, <2>2, RestKeeps DEF Submit, ReservationsTypeOK
<1>3. CASE Prepared BY <1>3, PreparedKeeps
<1>4. ASSUME NEW i \in DOMAIN records, CancelReservation(i) PROVE ReservationsInv' /\ Keeps
      BY <1>4, UserChanges DEF CancelReservation, Phases
<1>5. ASSUME NEW i \in DOMAIN records, Acknowledge(i) PROVE ReservationsInv' /\ Keeps
      BY <1>5, UserChanges DEF Acknowledge, Phases, Cancellable
<1>6. ASSUME NEW i \in DOMAIN records, SuppressRetry(i) \/ SubmitSuppresses(i)
      PROVE  ReservationsInv' /\ Keeps
      BY <1>6, SuppressKeeps DEF SubmitSuppresses
<1>7. ASSUME NEW i \in DOMAIN records, BudgetEnds(i) PROVE ReservationsInv' /\ Keeps
      BY <1>0, <1>7, RestKeeps DEF BudgetEnds, ReservationsTypeOK
<1>8. CASE EvaluateBegins BY <1>8, EvaluateBeginsKeeps
<1>9. CASE ReconcileRecord BY <1>9, ReconcileKeeps
<1>10. CASE Inspect BY <1>10, InspectKeeps
<1>11. CASE StartActs \/ LaunchAttempt \/ ReportLauncher \/ LauncherReady \/ AttemptCleaned \/ StopActs
       BY <1>11, ActsKeep
<1>12. ASSUME NEW token \in Tokens,
              \/ LauncherTakesLock(token) \/ LauncherBecomesReady(token)
              \/ LauncherExits(token) \/ OrphansEnd(token)
       PROVE  ReservationsInv' /\ Keeps
  <2>1. token \in Launchers BY ReservationsAssumption DEF Tokens, Launchers
  <2> QED BY <1>0, <1>12, <2>1, RestKeeps
          DEF LauncherTakesLock, LauncherBecomesReady, LauncherExits, OrphansEnd, ReservationsTypeOK
<1>13. CASE HelperRestarts BY <1>0, <1>13, RestKeeps DEF HelperRestarts, ReservationsTypeOK
<1> QED BY <1>1, <1>2, <1>3, <1>4, <1>5, <1>6, <1>7, <1>8, <1>9, <1>10, <1>11, <1>12, <1>13
        DEF ReservationsNext

--------------------------------------------------------------------------
(* A reservation that has ended, been cancelled or been replaced is never     *)
(* changed again, whatever an evaluation was in the middle of: current() of   *)
(* evaluate, and the second look of submit after prepare.                     *)
THEOREM EndedReservationStays == ReservationsSpec => EndedStaysEnded
<1>1. ReservationsInit => ReservationsInv
      BY DEF ReservationsInit, ReservationsInv, ReservationsTypeOK, ActsOnExecuting, SeesPending, Launchers
<1>2. ReservationsInv /\ [ReservationsNext]_reservationVars => ReservationsInv' BY ReservationsStep
<1>3. ReservationsInv /\ [ReservationsNext]_reservationVars =>
          [\A i \in DOMAIN records : Terminal(records[i].phase) => records'[i] = records[i]]_reservationVars
      BY ReservationsStep DEF Keeps
<1> QED BY <1>1, <1>2, <1>3, PTL DEF ReservationsSpec, EndedStaysEnded


--------------------------------------------------------------------------
(* Why an attempt is authorized.  A reservation has spent every attempt below *)
(* the one it counts: nothing of it is left, and its retries were not said to *)
(* be disabled.  What it has not counted was never started.  A reservation    *)
(* that waits to try again knows the launcher of the attempt before, so that  *)
(* CleanupProven looks at its process group; one that is carried out and does *)
(* not know its launcher yet has not cleared the attempt.                     *)

Groups == {"none", "starting", "ready", "orphans", "gone"}
HasGroup(g, token) == g[token] \in {"starting", "ready", "orphans"}

Carried(r) ==
    r.initial => /\ r.kind = "start" /\ r.phase \notin {"blocked", "handoff-ready", "handing-off"}
                 /\ r.phase = "waiting" /\ r.attempts > 0 => r.pid
                 /\ Executing(r.phase) /\ ~r.pid => r.cleanup = "pending"
Spent(i, r, g, d) ==
    \A a \in 1 .. StartBudget : <<i, a>> \in Tokens =>
        /\ a < r.attempts => ~HasGroup(g, <<i, a>>)
        /\ a > r.attempts => g[<<i, a>>] = "none"
        /\ <<i, a>> \in d => r.suppressed /\ a = r.attempts
LaunchKnown ==
    evaluation # None /\ evaluation.step \in {"launched", "wait"} =>
        /\ Rec.initial /\ (evaluation.step = "wait" => Rec.pid)
        /\ AttemptOwner(evaluation.of) \in Tokens => group[AttemptOwner(evaluation.of)] # "none"
Unused == \A token \in Tokens : token[1] \notin DOMAIN records => group[token] = "none" /\ token \notin disabled

AttemptInv ==
    /\ group \in [Tokens -> Groups]
    /\ \A i \in DOMAIN records : Carried(records[i]) /\ Spent(i, records[i], group, disabled)
    /\ Unused
    /\ LaunchKnown

Authorized ==
    \A token \in Tokens : group[token] = "none" /\ group'[token] # "none" =>
        /\ Executing(records[token[1]].phase)
        /\ \A attempt \in 1 .. token[2] - 1 :
              <<token[1], attempt>> \notin disabled /\ ~GroupAlive(<<token[1], attempt>>)

\* What a step makes of a reservation without counting an attempt.
Quiet(i) ==
    /\ Carried(records'[i]) /\ records'[i].attempts = records[i].attempts
    /\ records'[i].suppressed = records[i].suppressed

\* Groups that end, and launchers that go on, spend no attempt.
LEMMA QuietKeepsAttempts ==
    ASSUME AttemptInv, DOMAIN records' = DOMAIN records, \A i \in DOMAIN records : Quiet(i),
           disabled' = disabled, group' \in [Tokens -> Groups], LaunchKnown',
           \A token \in Tokens :
              \/ group'[token] = group[token]
              \/ /\ group[token] # "none" /\ group'[token] # "none"
                 /\ HasGroup(group', token) => HasGroup(group, token)
    PROVE  AttemptInv' /\ Authorized
<1>1. ASSUME NEW i \in DOMAIN records PROVE Spent(i, records'[i], group', disabled)
  <2>1. Spent(i, records[i], group, disabled) /\ Quiet(i) BY DEF AttemptInv
  <2> QED BY <2>1 DEF Spent, Quiet, HasGroup
<1>2. \A i \in DOMAIN records' : Carried(records'[i]) /\ Spent(i, records'[i], group', disabled')
      BY <1>1 DEF Quiet
<1>3. Unused' BY DEF AttemptInv, Unused
<1>4. Authorized BY DEF Authorized
<1> QED BY <1>2, <1>3, <1>4 DEF AttemptInv

\* The same, when no group changes.
LEMMA RecordsKeepAttempts ==
    ASSUME AttemptInv, DOMAIN records' = DOMAIN records, \A i \in DOMAIN records : Quiet(i),
           UNCHANGED <<group, disabled>>, LaunchKnown'
    PROVE  AttemptInv' /\ Authorized
<1>1. group' \in [Tokens -> Groups] BY DEF AttemptInv
<1> QED BY <1>1, QuietKeepsAttempts

LEMMA SameRecordsQuiet ==
    ASSUME AttemptInv, records' = records
    PROVE  DOMAIN records' = DOMAIN records /\ \A i \in DOMAIN records : Quiet(i)
BY DEF AttemptInv, Quiet

\* A change of one reservation.
LEMMA OneQuiet ==
    ASSUME ReservationsTypeOK, AttemptInv, NEW i \in DOMAIN records, NEW r \in Reservations,
           records' = [records EXCEPT ![i] = r], Carried(r), r.attempts = records[i].attempts,
           r.suppressed = records[i].suppressed
    PROVE  DOMAIN records' = DOMAIN records /\ \A j \in DOMAIN records : Quiet(j)
<1>1. /\ DOMAIN records' = DOMAIN records /\ records'[i] = r
      /\ \A j \in DOMAIN records \ {i} : records'[j] = records[j]
      BY SameEntries
<1>2. \A j \in DOMAIN records \ {i} : Quiet(j) BY <1>1 DEF Quiet, AttemptInv
<1>3. Quiet(i) BY <1>1 DEF Quiet
<1> QED BY <1>1, <1>2, <1>3

LEMMA FailedQuiet ==
    ASSUME ReservationsTypeOK, AttemptInv, NEW i \in DOMAIN records, NEW c \in BOOLEAN, NEW t \in BOOLEAN,
           records' = Failed(i, c, t), records[i].initial /\ c /\ t => records[i].pid
    PROVE  DOMAIN records' = DOMAIN records /\ \A j \in DOMAIN records : Quiet(j)
<1> DEFINE fate == IF Retries(i, c, t) THEN "waiting"
                    ELSE IF records[i].suppressed /\ c THEN "cancelled" ELSE "failed"
           swept == IF c THEN "clear" ELSE "uncertain"
           r == IF ~records[i].initial THEN [records[i] EXCEPT !.phase = "failed"]
                ELSE [records[i] EXCEPT !.phase = fate, !.cleanup = swept]
<1>1. records[i] \in Reservations /\ Carried(records[i]) BY DEF ReservationsTypeOK, AttemptInv
<1>2. fate \in Phases /\ (fate = "waiting" => c /\ t) /\ fate \in {"waiting", "cancelled", "failed"}
      BY DEF Phases, Retries
<1>3. swept \in {"clear", "uncertain"} OBVIOUS
<1>4. records' = [records EXCEPT ![i] = r]
  <2>1. CASE ~records[i].initial BY <2>1 DEF Failed, Phased
  <2>2. CASE records[i].initial BY <2>2 DEF Failed
  <2> QED BY <2>1, <2>2
<1> HIDE DEF fate, swept
<1>5. /\ r \in Reservations /\ r.attempts = records[i].attempts /\ r.suppressed = records[i].suppressed
      /\ r.initial = records[i].initial /\ r.pid = records[i].pid /\ r.kind = records[i].kind
      /\ r.initial => r.phase = fate
      BY <1>1, <1>2, <1>3 DEF Reservations, Phases
<1> HIDE DEF r
<1>6. Carried(r) BY <1>1, <1>2, <1>5 DEF Carried, Executing
<1> QED BY <1>4, <1>5, <1>6, OneQuiet

LEMMA FailsQuiet ==
    ASSUME ReservationsTypeOK, AttemptInv, evaluation # None, NEW c \in BOOLEAN, NEW t \in BOOLEAN, FailsWith(c, t),
           Rec.initial /\ c /\ t => Rec.pid
    PROVE  /\ DOMAIN records' = DOMAIN records /\ \A j \in DOMAIN records : Quiet(j)
           /\ LaunchKnown'
<1>1. evaluation.of \in DOMAIN records BY DEF ReservationsTypeOK
<1>2. LaunchKnown' BY DEF FailsWith, LaunchKnown
<1>3. CASE Terminal(Rec.phase) BY <1>2, <1>3, SameRecordsQuiet DEF FailsWith
<1>4. CASE ~Terminal(Rec.phase) BY <1>1, <1>2, <1>4, FailedQuiet DEF FailsWith, Rec
<1> QED BY <1>3, <1>4

LEMMA ConcludesQuiet ==
    ASSUME ReservationsTypeOK, AttemptInv, evaluation # None, NEW p \in Phases, Concludes(p),
           Rec.initial => p = "completed" \/ (p = "waiting" /\ Rec.phase = "waiting")
    PROVE  /\ DOMAIN records' = DOMAIN records /\ \A j \in DOMAIN records : Quiet(j)
           /\ LaunchKnown'
<1> DEFINE i == evaluation.of
           r == [records[i] EXCEPT !.phase = p, !.cleanup = IF p = "completed" THEN "clear" ELSE @]
<1>1. i \in DOMAIN records /\ records[i] \in Reservations /\ Carried(records[i])
      BY DEF ReservationsTypeOK, AttemptInv
<1>2. /\ r \in Reservations /\ r.attempts = records[i].attempts /\ r.suppressed = records[i].suppressed
      /\ r.initial = records[i].initial /\ r.pid = records[i].pid /\ r.kind = records[i].kind /\ r.phase = p
      BY <1>1 DEF Reservations
<1>3. records' = [records EXCEPT ![i] = r] BY <1>1 DEF Concludes
<1> HIDE DEF r
<1>4. Carried(r) BY <1>1, <1>2 DEF Carried, Executing, Rec
<1>5. DOMAIN records' = DOMAIN records /\ \A j \in DOMAIN records : Quiet(j)
      BY <1>1, <1>2, <1>3, <1>4, OneQuiet
<1>6. LaunchKnown' BY DEF Concludes, LaunchKnown
<1> QED BY <1>5, <1>6

LEMMA LeavesQuiet ==
    ASSUME AttemptInv, Leaves
    PROVE  /\ DOMAIN records' = DOMAIN records /\ \A j \in DOMAIN records : Quiet(j)
           /\ LaunchKnown'
<1>1. LaunchKnown' BY DEF Leaves, LaunchKnown
<1> QED BY <1>1, SameRecordsQuiet DEF Leaves

--------------------------------------------------------------------------
(* One step and the attempts *)

\* While a launcher is known, its reservation is carried out and not changed.
LEMMA LaunchStaysKnown ==
    ASSUME ReservationsInv, LaunchKnown, group' = group, evaluation' \in {evaluation, Outdated, None},
           \A i \in DOMAIN records : Executing(records[i].phase) =>
              /\ records'[i].initial = records[i].initial /\ records'[i].pid = records[i].pid
              /\ records'[i].attempts = records[i].attempts
    PROVE  LaunchKnown'
<1> SUFFICES ASSUME evaluation' # None, evaluation'.step \in {"launched", "wait"}
             PROVE  /\ Rec'.initial /\ (evaluation'.step = "wait" => Rec'.pid)
                    /\ <<evaluation'.of, Rec'.attempts>> \in Tokens => group[<<evaluation'.of, Rec'.attempts>>] # "none"
    BY DEF LaunchKnown, AttemptOwner, Rec
<1>1. evaluation # None BY DEF Outdated
<1>2. evaluation'.of = evaluation.of /\ evaluation'.step = evaluation.step /\ evaluation.of \in DOMAIN records
      BY <1>1 DEF Outdated, ReservationsInv, ReservationsTypeOK
<1>3. Executing(Rec.phase) BY <1>1, <1>2 DEF ReservationsInv, ActsOnExecuting
<1>4. Rec'.initial = Rec.initial /\ Rec'.pid = Rec.pid /\ Rec'.attempts = Rec.attempts BY <1>2, <1>3 DEF Rec
<1>5. /\ Rec.initial /\ (evaluation.step = "wait" => Rec.pid)
      /\ <<evaluation.of, Rec.attempts>> \in Tokens => group[<<evaluation.of, Rec.attempts>>] # "none"
      BY <1>1, <1>2 DEF LaunchKnown, AttemptOwner, Rec
<1> QED BY <1>2, <1>4, <1>5

LEMMA UserQuiet ==
    ASSUME ReservationsInv, AttemptInv, NEW i \in DOMAIN records, NEW p \in {"cancelled", "handing-off"},
           Cancellable(records[i].phase), p = "handing-off" => records[i].phase = "handoff-ready",
           records' = Phased(i, p), evaluation' = Outdated, UNCHANGED <<group, disabled>>
    PROVE  AttemptInv' /\ Authorized
<1> DEFINE r == [records[i] EXCEPT !.phase = p]
<1>1. records[i] \in Reservations /\ Carried(records[i])
      BY DEF ReservationsInv, ReservationsTypeOK, AttemptInv
<1>2. /\ r \in Reservations /\ r.attempts = records[i].attempts /\ r.suppressed = records[i].suppressed
      /\ r.initial = records[i].initial /\ r.pid = records[i].pid /\ r.kind = records[i].kind /\ r.phase = p
      BY <1>1 DEF Reservations, Phases
<1>3. records' = [records EXCEPT ![i] = r] BY DEF Phased
<1> HIDE DEF r
<1>4. Carried(r) BY <1>1, <1>2 DEF Carried, Executing
<1>5. DOMAIN records' = DOMAIN records /\ \A j \in DOMAIN records : Quiet(j)
      BY <1>2, <1>3, <1>4, OneQuiet DEF ReservationsInv
<1>6. \A j \in DOMAIN records : Executing(records[j].phase) => records'[j] = records[j]
      BY <1>3 DEF Executing, Cancellable, ReservationsInv, ReservationsTypeOK
<1>7. LaunchKnown' BY <1>6, LaunchStaysKnown DEF AttemptInv
<1> QED BY <1>5, <1>7, RecordsKeepAttempts

\* What disables the retries of an attempt also suppresses the next claim.
LEMMA SuppressAuthorized ==
    ASSUME ReservationsInv, AttemptInv, NEW i \in DOMAIN records, SuppressRetry(i)
    PROVE  AttemptInv' /\ Authorized
<1> DEFINE r == [records[i] EXCEPT !.suppressed = TRUE]
<1>1. records[i] \in Reservations /\ Carried(records[i]) /\ Spent(i, records[i], group, disabled)
      BY DEF ReservationsInv, ReservationsTypeOK, AttemptInv
<1>2. /\ r \in Reservations /\ r.attempts = records[i].attempts /\ r.suppressed
      /\ r.initial = records[i].initial /\ r.pid = records[i].pid /\ r.kind = records[i].kind
      /\ r.phase = records[i].phase /\ r.cleanup = records[i].cleanup
      BY <1>1 DEF Reservations
<1>3. records' = [records EXCEPT ![i] = r] BY DEF SuppressRetry, Suppressed
<1> HIDE DEF r
<1>4. /\ DOMAIN records' = DOMAIN records /\ records'[i] = r
      /\ \A j \in DOMAIN records \ {i} : records'[j] = records[j]
      BY <1>2, <1>3, SameEntries DEF ReservationsInv
<1>5. /\ group' = group /\ evaluation' = Outdated /\ disabled' = disabled \cup {<<i, records[i].attempts>>}
      BY DEF SuppressRetry, AttemptOwner
<1>6. \A j \in DOMAIN records : Carried(records'[j]) BY <1>1, <1>2, <1>4 DEF Carried, AttemptInv
<1>7. Spent(i, records'[i], group', disabled')
      BY <1>1, <1>2, <1>4, <1>5 DEF Spent
<1>8. ASSUME NEW j \in DOMAIN records \ {i} PROVE Spent(j, records'[j], group', disabled')
      BY <1>4, <1>5 DEF Spent, AttemptInv
<1>9. Unused' BY <1>4, <1>5 DEF AttemptInv, Unused
<1>10. LaunchKnown'
  <2>1. \A j \in DOMAIN records : /\ records'[j].initial = records[j].initial /\ records'[j].pid = records[j].pid
                                  /\ records'[j].attempts = records[j].attempts
        BY <1>2, <1>4
  <2> QED BY <1>5, <2>1, LaunchStaysKnown DEF AttemptInv
<1>11. Authorized BY <1>5 DEF Authorized
<1> QED BY <1>4, <1>5, <1>6, <1>7, <1>8, <1>9, <1>10, <1>11 DEF AttemptInv

\* A new reservation has counted no attempt.
LEMMA PreparedAuthorized == ASSUME ReservationsInv, AttemptInv, Prepared PROVE AttemptInv' /\ Authorized
<1>0. group' = group /\ disabled' = disabled BY DEF Prepared
<1>1. CASE UNCHANGED <<records, evaluation>>
  <2>1. LaunchKnown' BY <1>0, <1>1, LaunchStaysKnown DEF AttemptInv
  <2> QED BY <1>0, <1>1, <2>1, SameRecordsQuiet, RecordsKeepAttempts
<1>2. CASE /\ Replaces(preparing.replaces)
           /\ records' = Append(Replaced(preparing.replaces), Reservation(preparing.kind))
           /\ evaluation' = Outdated
  <2> DEFINE others == Replaced(preparing.replaces)
             new == Reservation(preparing.kind)
             n == Len(records) + 1
  <2>0. records \in Seq(Reservations) BY DEF ReservationsInv, ReservationsTypeOK
  <2>1. others \in Seq(Reservations) /\ DOMAIN others = DOMAIN records
    <3>1. ASSUME NEW j \in DOMAIN records PROVE others[j] \in Reservations
      <4>1. records[j] \in Reservations BY <2>0
      <4>2. [records[j] EXCEPT !.phase = "cancelled"] \in Reservations
            BY <4>1 DEF Reservations, Phases
      <4> QED BY <4>1, <4>2 DEF Replaced
    <3> QED BY <2>0, <3>1 DEF Replaced
  <2>2. new.attempts = 0 /\ new.phase = "waiting" /\ (new.initial => new.kind = "start")
        BY DEF Reservation
  <2>3. \A j \in DOMAIN records :
           others[j] = IF j \in preparing.replaces THEN [records[j] EXCEPT !.phase = "cancelled"] ELSE records[j]
        BY DEF Replaced
  <2> HIDE DEF others, new
  <2>4. /\ DOMAIN records' = DOMAIN records \cup {n} /\ n \notin DOMAIN records /\ records'[n] = new
        /\ \A j \in DOMAIN records : records'[j] = others[j]
    <3>1. Len(others) = Len(records) BY <2>0, <2>1
    <3>2. records' = Append(others, new) BY <1>2 DEF others, new
    <3> QED BY <2>0, <2>1, <3>1, <3>2
  <2>5. ASSUME NEW j \in DOMAIN records
        PROVE  Carried(records'[j]) /\ Spent(j, records'[j], group', disabled')
    <3>1. records[j] \in Reservations /\ Carried(records[j]) /\ Spent(j, records[j], group, disabled)
          BY <2>0 DEF AttemptInv
    <3>2. records'[j] \in {records[j], [records[j] EXCEPT !.phase = "cancelled"]} BY <2>3, <2>4
    <3>3. /\ records'[j].attempts = records[j].attempts /\ records'[j].suppressed = records[j].suppressed
          /\ \/ records'[j] = records[j]
             \/ /\ records'[j].phase = "cancelled" /\ records'[j].kind = records[j].kind
                /\ records'[j].initial = records[j].initial
          BY <3>1, <3>2 DEF Reservations
    <3>4. Carried(records'[j]) BY <3>1, <3>3 DEF Carried, Executing
    <3>5. Spent(j, records'[j], group', disabled') BY <1>0, <3>1, <3>3 DEF Spent
    <3> QED BY <3>4, <3>5
  <2>6. Carried(records'[n]) BY <2>2, <2>4 DEF Carried, Executing
  <2>7. Spent(n, records'[n], group', disabled')
    <3> SUFFICES ASSUME NEW a \in 1 .. StartBudget, <<n, a>> \in Tokens
                 PROVE  group[<<n, a>>] = "none" /\ <<n, a>> \notin disabled /\ ~(a < records'[n].attempts)
        BY <1>0 DEF Spent
    <3>1. <<n, a>>[1] \notin DOMAIN records BY <2>4
    <3> QED BY <2>2, <2>4, <3>1 DEF AttemptInv, Unused
  <2>8. Unused' BY <1>0, <2>4 DEF AttemptInv, Unused
  <2>9. LaunchKnown'
    <3>1. \A j \in DOMAIN records : Executing(records[j].phase) => records'[j] = records[j]
          BY <1>2, <2>3, <2>4 DEF Replaces, Cancellable, Executing
    <3> QED BY <1>0, <1>2, <3>1, LaunchStaysKnown DEF AttemptInv
  <2>10. Authorized BY <1>0 DEF Authorized
  <2> QED BY <1>0, <2>4, <2>5, <2>6, <2>7, <2>8, <2>9, <2>10 DEF AttemptInv
<1> QED BY <1>1, <1>2 DEF Prepared

LEMMA BeginsAuthorized == ASSUME ReservationsInv, AttemptInv, EvaluateBegins PROVE AttemptInv' /\ Authorized
<1>0. group' = group /\ disabled' = disabled BY DEF EvaluateBegins
<1>1. PICK i \in DOMAIN records :
         \/ (Begins(i, "reconcile") \/ Begins(i, "inspect")) /\ UNCHANGED records
         \/ records' = Failed(i, records[i].cleanup = "clear", FALSE) /\ UNCHANGED evaluation
      BY DEF EvaluateBegins
<1>2. CASE (Begins(i, "reconcile") \/ Begins(i, "inspect")) /\ UNCHANGED records
  <2>1. LaunchKnown' BY <1>2 DEF Begins, LaunchKnown
  <2> QED BY <1>0, <1>2, <2>1, SameRecordsQuiet, RecordsKeepAttempts
<1>3. CASE records' = Failed(i, records[i].cleanup = "clear", FALSE) /\ UNCHANGED evaluation
  <2>1. evaluation = None BY DEF EvaluateBegins
  <2>2. LaunchKnown' BY <1>3, <2>1 DEF LaunchKnown
  <2>3. DOMAIN records' = DOMAIN records /\ \A j \in DOMAIN records : Quiet(j)
        BY <1>3, FailedQuiet DEF ReservationsInv
  <2> QED BY <1>0, <2>2, <2>3, RecordsKeepAttempts
<1> QED BY <1>1, <1>2, <1>3

\* The evaluation that looked for what became of a reservation ends.
QuietEnd ==
    /\ DOMAIN records' = DOMAIN records /\ \A j \in DOMAIN records : Quiet(j)
    /\ LaunchKnown'

LEMMA AttemptReconciledQuiet ==
    ASSUME ReservationsInv, AttemptInv, evaluation # None, Current, Rec.initial, Executing(Rec.phase),
           AttemptReconciled(evaluation.of)
    PROVE  QuietEnd
<1>0. /\ ReservationsTypeOK /\ evaluation.of \in DOMAIN records /\ Carried(Rec) /\ "completed" \in Phases
      /\ Rec \in Reservations
      BY DEF ReservationsInv, ReservationsTypeOK, AttemptInv, Rec, Phases
<1>1. ASSUME NEW t \in BOOLEAN, FailsWith(FALSE, t) PROVE QuietEnd
      BY <1>0, <1>1, FailsQuiet DEF QuietEnd
<1>2. CASE Concludes("completed") BY <1>0, <1>2, ConcludesQuiet DEF QuietEnd
<1>3. CASE Leaves BY <1>3, LeavesQuiet DEF QuietEnd
<1>4. ASSUME NEW t \in BOOLEAN, FailsWith(TRUE, t), CleanupProven(evaluation.of)
      PROVE  QuietEnd
  <2>1. Rec.pid BY <1>0, <1>4 DEF CleanupProven, Carried, Rec, Reservations
  <2> QED BY <1>0, <1>4, <2>1, FailsQuiet DEF QuietEnd
<1> QED BY <1>1, <1>2, <1>3, <1>4 DEF AttemptReconciled

LEMMA ReconcileAuthorized == ASSUME ReservationsInv, AttemptInv, ReconcileRecord PROVE AttemptInv' /\ Authorized
<1>0. group' = group /\ disabled' = disabled BY DEF ReconcileRecord
<1>1. /\ ReservationsTypeOK /\ evaluation # None /\ evaluation.of \in DOMAIN records
      /\ Carried(Rec) /\ Rec \in Reservations /\ {"waiting", "completed", "handoff-ready"} \subseteq Phases
      BY DEF ReconcileRecord, At, ReservationsInv, ReservationsTypeOK, AttemptInv, Rec, Phases
<1>2. QuietEnd
  <2>1. CASE ~Current BY <1>1, <2>1, LeavesQuiet, FailsQuiet DEF ReconcileRecord, QuietEnd
  <2>2. CASE Current
    <3>0. ~Terminal(Rec.phase) BY <1>1, <2>2 DEF ReservationsInv, SeesPending, Current
    <3>1. ASSUME FailsWith(FALSE, FALSE) PROVE QuietEnd BY <1>1, <3>1, FailsQuiet DEF QuietEnd
    <3>2. ASSUME NEW p \in {"waiting", "completed", "handoff-ready"}, Concludes(p), ~Rec.initial PROVE QuietEnd
      <4>1. p \in Phases BY <1>1
      <4> QED BY <1>1, <3>2, <4>1, ConcludesQuiet DEF QuietEnd
    <3>3. CASE Rec.phase \in {"waiting", "blocked"} /\ Concludes("waiting")
      <4>1. Rec.initial => Rec.phase = "waiting" BY <1>1, <3>3 DEF Carried
      <4> QED BY <1>1, <3>3, <4>1, ConcludesQuiet DEF QuietEnd
    <3>4. CASE Rec.phase \notin {"waiting", "blocked"} /\ Rec.initial /\ AttemptReconciled(evaluation.of)
      <4>1. Executing(Rec.phase)
            BY <1>1, <3>0, <3>4 DEF Carried, Executing, Terminal, Reservations, Phases
      <4> QED BY <1>1, <2>2, <3>4, <4>1, AttemptReconciledQuiet
    <3>5. CASE ~Rec.initial /\ StopReconciled(evaluation.of)
          BY <3>1, <3>2, <3>5, LeavesQuiet DEF StopReconciled, QuietEnd
    <3>6. Rec.kind # "start" => ~Rec.initial BY <1>1 DEF Carried
    <3> QED BY <2>2, <3>1, <3>2, <3>3, <3>4, <3>5, <3>6 DEF ReconcileRecord
  <2> QED BY <2>1, <2>2
<1> QED BY <1>0, <1>2, RecordsKeepAttempts DEF QuietEnd

\* A claim spends the attempt before, whose end is proven, and counts the next.
LEMMA ClaimAuthorized ==
    ASSUME ReservationsInv, AttemptInv, evaluation # None, Current,
           records' = Claimed(evaluation.of), StepsTo("act"), UNCHANGED <<group, disabled>>,
           Rec.initial => ~Rec.suppressed,
           Rec.initial /\ Rec.attempts > 0 => CleanupProven(evaluation.of)
    PROVE  AttemptInv' /\ Authorized
<1> DEFINE i == evaluation.of
           attempts == IF records[i].initial THEN records[i].attempts + 1 ELSE records[i].attempts
           cleanup == IF records[i].initial THEN "pending" ELSE records[i].cleanup
           r == [records[i] EXCEPT !.phase = "executing", !.before = Run,
                    !.attempts = attempts, !.cleanup = cleanup, !.pid = FALSE]
<1>1. /\ ReservationsTypeOK /\ i \in DOMAIN records /\ records[i] \in Reservations /\ Run \in Launchers
      /\ Carried(records[i]) /\ Spent(i, records[i], group, disabled) /\ ~Terminal(records[i].phase)
      BY RunTyped DEF ReservationsInv, ReservationsTypeOK, AttemptInv, SeesPending, Current, Rec
<1>2. /\ attempts \in Nat /\ cleanup \in {"clear", "pending", "uncertain"}
      /\ records[i].attempts \in Nat
      BY <1>1 DEF Reservations
<1>3. records' = [records EXCEPT ![i] = r]
  <2>1. [records[i] EXCEPT !.phase = "executing", !.before = Run,
                    !.attempts = IF records[i].initial THEN @ + 1 ELSE @,
                    !.cleanup = IF records[i].initial THEN "pending" ELSE @, !.pid = FALSE] = r
        BY <1>1 DEF Reservations
  <2> QED BY <1>1, <2>1 DEF Claimed
<1>4. attempts = IF records[i].initial THEN records[i].attempts + 1 ELSE records[i].attempts
      OBVIOUS
<1>5. cleanup = IF records[i].initial THEN "pending" ELSE records[i].cleanup
      OBVIOUS
<1> HIDE DEF attempts, cleanup
<1>6. /\ r \in Reservations /\ r.attempts = attempts /\ r.suppressed = records[i].suppressed
      /\ r.initial = records[i].initial /\ r.kind = records[i].kind /\ r.phase = "executing"
      /\ r.cleanup = cleanup
      BY <1>1, <1>2 DEF Reservations, Phases
<1> HIDE DEF r
<1>7. /\ DOMAIN records' = DOMAIN records /\ records'[i] = r
      /\ \A j \in DOMAIN records \ {i} : records'[j] = records[j]
      BY <1>1, <1>3, <1>6, SameEntries
<1>8. Carried(r) BY <1>1, <1>5, <1>6 DEF Carried
<1>9. Spent(i, r, group, disabled)
  <2>1. CASE ~records[i].initial BY <1>1, <1>4, <1>6, <2>1 DEF Spent
  <2>2. CASE records[i].initial
    <3>1. ~records[i].suppressed /\ attempts = records[i].attempts + 1 BY <1>4, <2>2 DEF Rec
    <3>2. ASSUME NEW a \in 1 .. StartBudget, <<i, a>> \in Tokens, a = records[i].attempts
          PROVE  ~HasGroup(group, <<i, a>>)
      <4>1. CleanupProven(i) BY <1>2, <2>2, <3>2 DEF Rec
      <4>2. records[i].pid
        <5>1. records[i].phase = "waiting" \/ Executing(records[i].phase)
              BY <1>1, <2>2 DEF Carried, Executing, Terminal, Reservations, Phases
        <5>2. records[i].attempts > 0 BY <1>2, <3>2
        <5>3. records[i].pid \/ records[i].cleanup = "clear" BY <4>1 DEF CleanupProven
        <5> QED BY <1>1, <2>2, <5>1, <5>2, <5>3 DEF Carried
      <4>3. ~GroupAlive(<<i, a>>) BY <3>2, <4>1, <4>2 DEF CleanupProven, AttemptOwner
      <4> QED BY <4>3 DEF GroupAlive, Runs, HasGroup
    <3>3. \A a \in 1 .. StartBudget : a < attempts => a < records[i].attempts \/ a = records[i].attempts
          BY <1>2, <3>1
    <3>4. \A a \in 1 .. StartBudget : a > attempts => a > records[i].attempts BY <1>2, <3>1
    <3> QED BY <1>1, <1>6, <3>1, <3>2, <3>3, <3>4 DEF Spent
  <2> QED BY <2>1, <2>2
<1>10. \A j \in DOMAIN records' : Carried(records'[j]) /\ Spent(j, records'[j], group', disabled')
  <2> SUFFICES ASSUME NEW j \in DOMAIN records'
               PROVE  Carried(records'[j]) /\ Spent(j, records'[j], group, disabled)
      OBVIOUS
  <2>1. CASE j = i BY <1>7, <1>8, <1>9, <2>1
  <2>2. CASE j # i BY <1>7, <2>2 DEF AttemptInv
  <2> QED BY <2>1, <2>2
<1>11. Unused' BY <1>7 DEF AttemptInv, Unused
<1>12. LaunchKnown'
  <2>1. evaluation'.step = "act" BY <1>1 DEF StepsTo, ReservationsTypeOK
  <2> QED BY <2>1 DEF LaunchKnown
<1>13. Authorized BY DEF Authorized
<1> QED BY <1>7, <1>10, <1>11, <1>12, <1>13 DEF AttemptInv

LEMMA InspectAuthorized == ASSUME ReservationsInv, AttemptInv, Inspect PROVE AttemptInv' /\ Authorized
<1>0. group' = group /\ disabled' = disabled BY DEF Inspect
<1>1. /\ ReservationsTypeOK /\ evaluation # None /\ evaluation.of \in DOMAIN records
      /\ Carried(Rec) /\ Rec \in Reservations /\ {"waiting", "blocked"} \subseteq Phases
      BY DEF Inspect, At, ReservationsInv, ReservationsTypeOK, AttemptInv, Rec, Phases
<1>2. CASE QuietEnd BY <1>0, <1>2, RecordsKeepAttempts DEF QuietEnd
<1>3. CASE FailsWith(FALSE, FALSE) BY <1>1, <1>2, <1>3, FailsQuiet DEF QuietEnd
<1>4. CASE Leaves BY <1>2, <1>4, LeavesQuiet DEF QuietEnd
<1>5. ASSUME NEW p \in {"waiting", "blocked"}, Rec.kind # "start", Concludes(p)
      PROVE  AttemptInv' /\ Authorized
  <2>1. p \in Phases /\ ~Rec.initial BY <1>1, <1>5 DEF Carried
  <2> QED BY <1>1, <1>2, <1>5, <2>1, ConcludesQuiet DEF QuietEnd
<1>6. CASE /\ Current /\ ClaimsExecution(evaluation.of)
           /\ Rec.initial /\ Rec.attempts > 0 => CleanupProven(evaluation.of)
  <2>1. CASE FailsWith(FALSE, FALSE) BY <1>3, <2>1
  <2>2. CASE ~FailsWith(FALSE, FALSE)
    <3>1. /\ records' = Claimed(evaluation.of) /\ StepsTo("act")
          /\ Rec.initial => ~Rec.suppressed
          BY <1>6, <2>2 DEF ClaimsExecution, Rec
    <3> QED BY <1>0, <1>1, <1>6, <3>1, ClaimAuthorized
  <2> QED BY <2>1, <2>2
<1> QED BY <1>3, <1>4, <1>5, <1>6 DEF Inspect, IsCurrent

\* An attempt begins: it is the one its reservation counts, and those before it
\* are spent.
LEMMA LaunchAuthorized == ASSUME ReservationsInv, AttemptInv, LaunchAttempt PROVE AttemptInv' /\ Authorized
<1> DEFINE i == evaluation.of
           token == <<i, Rec.attempts>>
<1>1. /\ ReservationsTypeOK /\ evaluation # None /\ i \in DOMAIN records /\ Executing(Rec.phase) /\ Rec.initial
      /\ Carried(Rec) /\ Spent(i, Rec, group, disabled) /\ Rec \in Reservations /\ evaluation.step = "act"
      BY DEF LaunchAttempt, At, ReservationsInv, ReservationsTypeOK, ActsOnExecuting, AttemptInv, Rec
<1>2. /\ group' = [group EXCEPT ![token] = "starting"] /\ records' = records /\ disabled' = disabled
      /\ evaluation' = [evaluation EXCEPT !.step = "launched"] /\ Rec.attempts \in Nat
      BY <1>1 DEF LaunchAttempt, StepsTo, AttemptOwner, Rec, Reservations
<1>3. /\ group' \in [Tokens -> Groups]
      /\ \A other \in Tokens : other # token => group'[other] = group[other]
      /\ token \in Tokens => group'[token] = "starting"
      BY <1>2 DEF AttemptInv, Groups
<1>4. ASSUME NEW j \in DOMAIN records PROVE Spent(j, records[j], group', disabled')
  <2>0. Spent(j, records[j], group, disabled) BY DEF AttemptInv
  <2>1. CASE j # i BY <1>2, <1>3, <2>0, <2>1 DEF Spent, HasGroup
  <2>2. CASE j = i
    <3>1. \A a \in 1 .. StartBudget : <<j, a>> \in Tokens /\ a # Rec.attempts => group'[<<j, a>>] = group[<<j, a>>]
          BY <1>3, <2>2
    <3>2. \A a \in 1 .. StartBudget : (a < Rec.attempts \/ a > Rec.attempts) => a # Rec.attempts BY <1>2
    <3> QED BY <1>2, <2>0, <2>2, <3>1, <3>2 DEF Spent, HasGroup, Rec
  <2> QED BY <2>1, <2>2
<1>5. Unused'
  <2>1. \A other \in Tokens : other[1] \notin DOMAIN records => other # token BY <1>1
  <2> QED BY <1>2, <1>3, <2>1 DEF AttemptInv, Unused
<1>6. LaunchKnown'
  <2>1. evaluation'.of = i /\ evaluation'.step = "launched" BY <1>1, <1>2 DEF ReservationsTypeOK
  <2>2. Rec' = Rec /\ AttemptOwner(evaluation.of)' = token BY <1>2, <2>1 DEF Rec, AttemptOwner
  <2>3. token \in Tokens => group'[token] # "none" BY <1>3
  <2> QED BY <1>1, <2>1, <2>2, <2>3 DEF LaunchKnown
<1>7. Authorized
  <2> SUFFICES ASSUME NEW other \in Tokens, group[other] = "none", group'[other] # "none"
               PROVE  /\ Executing(records[other[1]].phase)
                      /\ \A a \in 1 .. other[2] - 1 :
                            <<other[1], a>> \notin disabled /\ ~GroupAlive(<<other[1], a>>)
      BY DEF Authorized
  <2>1. other = token BY <1>3
  <2>2. other[1] = i /\ other[2] = Rec.attempts /\ Rec.attempts \in 1 .. StartBudget /\ i \in 1 .. MaxReservations
        BY <2>1 DEF Tokens
  <2>3. ASSUME NEW a \in 1 .. Rec.attempts - 1 PROVE <<i, a>> \notin disabled /\ ~GroupAlive(<<i, a>>)
    <3>1. a \in 1 .. StartBudget /\ a < Rec.attempts /\ StartBudget \in Nat
          BY <2>2, ReservationsAssumption
    <3>2. <<i, a>> \in Tokens BY <2>2, <3>1 DEF Tokens
    <3>3. ~HasGroup(group, <<i, a>>) /\ (<<i, a>> \in disabled => a = Rec.attempts)
          BY <1>1, <3>1, <3>2 DEF Spent
    <3>4. <<i, a>> \notin disabled BY <1>2, <3>1, <3>3
    <3> QED BY <3>3, <3>4 DEF GroupAlive, Runs, HasGroup
  <2> QED BY <1>1, <2>2, <2>3 DEF Rec
<1> QED BY <1>1, <1>2, <1>3, <1>4, <1>5, <1>6, <1>7 DEF AttemptInv

LEMMA ReportAuthorized == ASSUME ReservationsInv, AttemptInv, ReportLauncher PROVE AttemptInv' /\ Authorized
<1> DEFINE i == evaluation.of
           r == [records[i] EXCEPT !.phase = "reconnecting", !.pid = TRUE]
<1>1. /\ ReservationsTypeOK /\ evaluation # None /\ i \in DOMAIN records /\ Rec.initial
      /\ Carried(Rec) /\ Rec \in Reservations /\ records[i] = Rec
      /\ <<i, Rec.attempts>> \in Tokens => group[<<i, Rec.attempts>>] # "none"
      BY DEF ReportLauncher, At, ReservationsInv, ReservationsTypeOK, AttemptInv, Rec, LaunchKnown, AttemptOwner
<1>2. group' = group /\ disabled' = disabled /\ evaluation' = [evaluation EXCEPT !.step = "wait"]
      BY DEF ReportLauncher, StepsTo
<1>3. records' = [records EXCEPT ![i] = r] BY <1>1 DEF ReportLauncher, Reported
<1>4. /\ r \in Reservations /\ r.attempts = Rec.attempts /\ r.suppressed = Rec.suppressed
      /\ r.initial = Rec.initial /\ r.kind = Rec.kind /\ r.phase = "reconnecting" /\ r.pid
      BY <1>1 DEF Reservations, Phases
<1> HIDE DEF r
<1>5. Carried(r) BY <1>1, <1>4 DEF Carried
<1>6. DOMAIN records' = DOMAIN records /\ \A j \in DOMAIN records : Quiet(j)
      BY <1>1, <1>3, <1>4, <1>5, OneQuiet
<1>7. records'[i] = r BY <1>1, <1>3, <1>4, SameEntries
<1>8. LaunchKnown'
  <2>1. evaluation'.of = i BY <1>1, <1>2 DEF ReservationsTypeOK
  <2>2. Rec' = r BY <1>7, <2>1 DEF Rec
  <2>3. AttemptOwner(evaluation.of)' = <<i, Rec.attempts>> BY <1>4, <1>7, <2>1 DEF AttemptOwner
  <2> QED BY <1>1, <1>2, <1>4, <2>2, <2>3 DEF LaunchKnown
<1> QED BY <1>2, <1>6, <1>8, RecordsKeepAttempts

LEMMA EndsAuthorized ==
    ASSUME ReservationsInv, AttemptInv, StartActs \/ LauncherReady \/ AttemptCleaned \/ StopActs
    PROVE  AttemptInv' /\ Authorized
<1>0. ReservationsTypeOK /\ evaluation # None
      BY DEF StartActs, LauncherReady, AttemptCleaned, StopActs, At, ReservationsInv
<1>1. /\ ReservationsTypeOK /\ evaluation # None /\ evaluation.of \in DOMAIN records
      /\ Carried(Rec) /\ Rec \in Reservations /\ {"completed", "blocked", "handoff-ready"} \subseteq Phases
      BY <1>0 DEF ReservationsTypeOK, AttemptInv, Rec, Phases
<1>2. ASSUME NEW t \in BOOLEAN, FailsWith(FALSE, t) PROVE QuietEnd BY <1>1, <1>2, FailsQuiet DEF QuietEnd
<1>3. disabled' = disabled BY DEF StartActs, LauncherReady, AttemptCleaned, StopActs
<1>4. CASE QuietEnd /\ group' = group BY <1>1, <1>3, <1>4, RecordsKeepAttempts DEF QuietEnd
<1>5. ASSUME Concludes("completed") PROVE QuietEnd BY <1>1, <1>5, ConcludesQuiet DEF QuietEnd
<1>6. CASE StartActs
  <2>1. ASSUME FailsWith(TRUE, FALSE) PROVE QuietEnd BY <1>1, <2>1, FailsQuiet DEF QuietEnd
  <2> QED BY <1>2, <1>4, <1>5, <1>6, <2>1 DEF StartActs
<1>7. CASE LauncherReady BY <1>4, <1>5, <1>7 DEF LauncherReady
<1>8. ASSUME NEW token, group' = [group EXCEPT ![token] = "gone"], QuietEnd,
             token \in Tokens => group[token] # "none"
      PROVE  AttemptInv' /\ Authorized
  <2>1. group' \in [Tokens -> Groups] BY <1>8 DEF AttemptInv, Groups
  <2>2. ASSUME NEW other \in Tokens
        PROVE  \/ group'[other] = group[other]
               \/ /\ group[other] # "none" /\ group'[other] # "none"
                  /\ HasGroup(group', other) => HasGroup(group, other)
        BY <1>8 DEF AttemptInv, HasGroup
  <2> QED BY <1>1, <1>3, <1>8, <2>1, <2>2, QuietKeepsAttempts DEF QuietEnd
<1>9. CASE AttemptCleaned
  <2>2. ASSUME NEW t \in BOOLEAN, FailsWith(TRUE, t) PROVE QuietEnd
    <3>1. Rec.pid BY <1>1, <1>9 DEF AttemptCleaned, At, AttemptInv, LaunchKnown
    <3> QED BY <1>1, <2>2, <3>1, FailsQuiet DEF QuietEnd
  <2>3. CASE FailsWith(FALSE, FALSE) /\ UNCHANGED group BY <1>2, <1>4, <2>3
  <2>4. CASE /\ group' = [group EXCEPT ![AttemptOwner(evaluation.of)] = "gone"]
             /\ \E t \in BOOLEAN : FailsWith(TRUE, t)
    <3>1. AttemptOwner(evaluation.of) \in Tokens => group[AttemptOwner(evaluation.of)] # "none"
          BY <1>1, <1>9 DEF AttemptCleaned, At, AttemptInv, LaunchKnown
    <3> QED BY <1>8, <2>2, <2>4, <3>1
  <2> QED BY <1>9, <2>3, <2>4 DEF AttemptCleaned
<1>10. CASE StopActs
  <2>1. ~Rec.initial BY <1>1, <1>10 DEF StopActs, Carried
  <2>2. ASSUME NEW p \in {"completed", "blocked", "handoff-ready"}, Concludes(p) PROVE QuietEnd
    <3>1. p \in Phases BY <1>1
    <3> QED BY <1>1, <2>1, <2>2, <3>1, ConcludesQuiet DEF QuietEnd
  <2>3. CASE QuietEnd /\ Run # None /\ group' = [group EXCEPT ![Run] = "gone"]
    <3>1. group[Run] \in {"starting", "ready"} BY <2>3 DEF Run, Runs
    <3> QED BY <1>8, <2>3, <3>1
  <2> QED BY <1>2, <1>4, <1>10, <2>2, <2>3 DEF StopActs
<1> QED BY <1>6, <1>7, <1>9, <1>10

\* The launchers themselves: they go on, or they end.
LEMMA LaunchersAuthorized ==
    ASSUME ReservationsInv, AttemptInv, NEW token \in Tokens,
           \/ LauncherTakesLock(token) \/ LauncherBecomesReady(token)
           \/ LauncherExits(token) \/ OrphansEnd(token)
    PROVE  AttemptInv' /\ Authorized
<1>1. /\ records' = records /\ evaluation' = evaluation /\ disabled' = disabled
      /\ \/ group' = group
         \/ \E state \in {"ready", "orphans", "gone"} :
              group' = [group EXCEPT ![token] = state] /\ HasGroup(group, token)
      BY DEF LauncherTakesLock, LauncherBecomesReady, LauncherExits, OrphansEnd, HasGroup, Runs
<1>2. /\ group' \in [Tokens -> Groups]
      /\ \A other \in Tokens :
            \/ group'[other] = group[other]
            \/ /\ group[other] # "none" /\ group'[other] # "none"
               /\ HasGroup(group', other) => HasGroup(group, other)
      BY <1>1 DEF AttemptInv, Groups, HasGroup
<1>3. LaunchKnown'
  <2>1. \A other \in Tokens : group[other] # "none" => group'[other] # "none" BY <1>2
  <2>2. Rec' = Rec /\ AttemptOwner(evaluation.of)' = AttemptOwner(evaluation.of)
        BY <1>1 DEF Rec, AttemptOwner
  <2> QED BY <1>1, <2>1, <2>2 DEF AttemptInv, LaunchKnown
<1> QED BY <1>1, <1>2, <1>3, SameRecordsQuiet, QuietKeepsAttempts

LEMMA AttemptsStep ==
    ASSUME ReservationsInv, AttemptInv, [ReservationsNext]_reservationVars PROVE AttemptInv' /\ Authorized
<1>1. ASSUME records' = records, evaluation' \in {evaluation, None}, UNCHANGED <<group, disabled>>
      PROVE  AttemptInv' /\ Authorized
  <2>1. LaunchKnown' BY <1>1, LaunchStaysKnown DEF AttemptInv
  <2> QED BY <1>1, <2>1, SameRecordsQuiet, RecordsKeepAttempts
<1>2. CASE UNCHANGED reservationVars BY <1>1, <1>2 DEF reservationVars
<1>3. ASSUME NEW kind \in RequestKinds, NEW replaces, Submit(kind, replaces)
      PROVE  AttemptInv' /\ Authorized
      BY <1>1, <1>3 DEF Submit
<1>4. CASE Prepared BY <1>4, PreparedAuthorized
<1>5. ASSUME NEW i \in DOMAIN records, CancelReservation(i) PROVE AttemptInv' /\ Authorized
      BY <1>5, UserQuiet DEF CancelReservation
<1>6. ASSUME NEW i \in DOMAIN records, Acknowledge(i) PROVE AttemptInv' /\ Authorized
      BY <1>6, UserQuiet DEF Acknowledge, Cancellable
<1>7. ASSUME NEW i \in DOMAIN records, SuppressRetry(i) \/ SubmitSuppresses(i)
      PROVE  AttemptInv' /\ Authorized
      BY <1>7, SuppressAuthorized DEF SubmitSuppresses
<1>8. ASSUME NEW i \in DOMAIN records, BudgetEnds(i) PROVE AttemptInv' /\ Authorized
      BY <1>1, <1>8 DEF BudgetEnds
<1>9. CASE EvaluateBegins BY <1>9, BeginsAuthorized
<1>10. CASE ReconcileRecord BY <1>10, ReconcileAuthorized
<1>11. CASE Inspect BY <1>11, InspectAuthorized
<1>12. CASE LaunchAttempt BY <1>12, LaunchAuthorized
<1>13. CASE ReportLauncher BY <1>13, ReportAuthorized
<1>14. CASE StartActs \/ LauncherReady \/ AttemptCleaned \/ StopActs BY <1>14, EndsAuthorized
<1>15. ASSUME NEW token \in Tokens,
              \/ LauncherTakesLock(token) \/ LauncherBecomesReady(token)
              \/ LauncherExits(token) \/ OrphansEnd(token)
       PROVE  AttemptInv' /\ Authorized
       BY <1>15, LaunchersAuthorized
<1>16. CASE HelperRestarts BY <1>1, <1>16 DEF HelperRestarts
<1> QED BY <1>2, <1>3, <1>4, <1>5, <1>6, <1>7, <1>8, <1>9, <1>10, <1>11, <1>12, <1>13, <1>14, <1>15, <1>16
        DEF ReservationsNext

\* An attempt is launched only for a reservation that is being carried out, when
\* nothing of an earlier attempt of it is left and none of them was the last one
\* the user allowed: for any budget, any number of reservations, launcher exits
\* and ends of the helper (execute, reconcileLifecycle, assertInitialStartupCleanup).
THEOREM AttemptsAreAuthorized == ReservationsSpec => AttemptIsAuthorized
<1>1. ReservationsInit => ReservationsInv /\ AttemptInv
  <2>1. ReservationsInit => ReservationsInv
        BY DEF ReservationsInit, ReservationsInv, ReservationsTypeOK, ActsOnExecuting, SeesPending, Launchers
  <2>2. ReservationsInit => AttemptInv
        BY DEF ReservationsInit, AttemptInv, Groups, Unused, LaunchKnown
  <2> QED BY <2>1, <2>2
<1>2. ReservationsInv /\ AttemptInv /\ [ReservationsNext]_reservationVars => (ReservationsInv /\ AttemptInv)'
      BY ReservationsStep, AttemptsStep
<1>3. ReservationsInv /\ AttemptInv /\ [ReservationsNext]_reservationVars =>
        [\A token \in Tokens : group[token] = "none" /\ group'[token] # "none" =>
            /\ Executing(records[token[1]].phase)
            /\ \A attempt \in 1 .. token[2] - 1 :
                  <<token[1], attempt>> \notin disabled /\ ~GroupAlive(<<token[1], attempt>>)]_reservationVars
      BY AttemptsStep DEF Authorized
<1> QED BY <1>1, <1>2, <1>3, PTL DEF ReservationsSpec, AttemptIsAuthorized
=============================================================================
