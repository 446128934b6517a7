--------------------------- MODULE ConnectionProofs ---------------------------
(* The theorems of ThreadConnections and of AutomaticRecovery. *)
EXTENDS ThreadConnections, AutomaticRecovery, FiniteSetTheorems, TLAPS

------------------------------------------------------------------------------
(* The theorems of ThreadConnections: a conversation on record as released is *)
(* routed to no worker and runs no turn, and a worker that is closed ends no  *)
(* turn.  Both rest on the row: nothing is admitted while it says releasing,  *)
(* and an answer is applied only to the row the release began with.           *)

--------------------------------------------------------------------------
(* The inductive invariant *)

Releases == [at : {"off", "next", "asked", "checking", "unsubscribing", "listing", "retiring", "closing"},
             left : SUBSET Threads, eligible : SUBSET Threads, thread : Threads \cup {None},
             same : BOOLEAN, list : SUBSET Threads]

ThreadsTypeOK ==
    /\ conn \in [Threads -> ConnectionRows \cup {None}]
    /\ jobOf \in [Threads -> {"none", "admitted", "called", "running"}]
    /\ worker \in Pids \cup {None}
    /\ loaded \subseteq Threads /\ route \subseteq Threads
    /\ sweeping \in Releases

\* No Job holds a conversation that is being released or has been.
ReleasingIsIdle ==
    \A t \in Threads : conn[t] # None /\ conn[t].phase \in {"releasing", "released"} => jobOf[t] = "none"

\* The release that goes on is on record, unless its row has moved on.
ReleaseIsOnRecord ==
    sweeping.at \notin {"off", "next"} =>
        /\ sweeping.thread \in Threads /\ conn[sweeping.thread] # None
        /\ sweeping.same => conn[sweeping.thread].phase = "releasing"

CandidatesHaveRows == \A t \in sweeping.left : conn[t] # None

RouteNeedsWorker == worker = None => route = {}

ThreadsInv ==
    /\ ThreadsTypeOK
    /\ ReleasingIsIdle /\ ReleaseIsOnRecord /\ CandidatesHaveRows /\ RouteNeedsWorker
    /\ ReleasedIsUnrouted /\ ReleaseEndsNoTurn

LEMMA NoneIsNoRow == None \notin ConnectionRows /\ None \notin Pids /\ IsFiniteSet(Threads)
BY ThreadsAssumption

\* A revision that has moved on: what Bumped leaves of a sweep.
LEMMA BumpedKeeps ==
    ASSUME ThreadsTypeOK, NEW ts
    PROVE  /\ Bumped(ts) \in Releases /\ Bumped(ts).at = sweeping.at /\ Bumped(ts).left = sweeping.left
           /\ Bumped(ts).thread = sweeping.thread /\ Bumped(ts).list = sweeping.list
           /\ (Bumped(ts).same => sweeping.same /\ sweeping.thread \notin ts)
<1> DEFINE same == sweeping.same /\ sweeping.thread \notin ts
<1>1. same \in BOOLEAN OBVIOUS
<1>2. Bumped(ts) = [sweeping EXCEPT !.same = same] BY DEF Bumped
<1>3. same => sweeping.same /\ sweeping.thread \notin ts OBVIOUS
<1> HIDE DEF same
<1> QED BY <1>1, <1>2, <1>3 DEF ThreadsTypeOK, Releases

--------------------------------------------------------------------------
(* Steps of the rows and of the Jobs *)

\* A row changes, and with it at most the Job of its conversation.
LEMMA RowStep ==
    ASSUME ThreadsInv, NEW t \in Threads, NEW row \in ConnectionRows, conn[t] # None,
           conn' = [conn EXCEPT ![t] = row],
           row.phase = "releasing" => conn[t].phase = "releasing",
           row.phase = "released" => conn[t].phase = "released",
           jobOf' \in [Threads -> {"none", "admitted", "called", "running"}],
           \A u \in Threads : u # t => jobOf'[u] = jobOf[u],
           row.phase \in {"releasing", "released"} => jobOf'[t] \in {"none", jobOf[t]},
           jobOf'[t] = "running" => jobOf[t] = "running",
           sweeping' = Bumped({t}) \/ (sweeping' = sweeping /\ row.phase = conn[t].phase),
           UNCHANGED <<worker, loaded, route>>
    PROVE  ThreadsInv'
<1> USE NoneIsNoRow DEF ThreadsInv
<1>1. conn' \in [Threads -> ConnectionRows \cup {None}] BY DEF ThreadsTypeOK
<1>2. \A u \in Threads : conn'[u] = IF u = t THEN row ELSE conn[u] BY DEF ThreadsTypeOK
<1>3. \A u \in Threads : conn[u] # None => conn'[u] # None BY <1>2
<1>4. /\ sweeping' \in Releases /\ sweeping'.at = sweeping.at /\ sweeping'.left = sweeping.left
      /\ sweeping'.thread = sweeping.thread
      /\ (sweeping'.same => sweeping.same /\ (sweeping.thread # t \/ row.phase = conn[t].phase))
      BY BumpedKeeps DEF ThreadsTypeOK
<1>5. ThreadsTypeOK' BY <1>1, <1>4 DEF ThreadsTypeOK
<1>6. ReleasingIsIdle'
  <2> SUFFICES ASSUME NEW u \in Threads, conn'[u].phase \in {"releasing", "released"}, conn'[u] # None
               PROVE  jobOf'[u] = "none"
      BY DEF ReleasingIsIdle
  <2>1. CASE u = t BY <2>1, <1>2 DEF ReleasingIsIdle
  <2>2. CASE u # t BY <2>2, <1>2 DEF ReleasingIsIdle
  <2> QED BY <2>1, <2>2
<1>7. ReleaseIsOnRecord' BY <1>2, <1>3, <1>4 DEF ReleaseIsOnRecord
<1>8. CandidatesHaveRows' BY <1>3, <1>4 DEF CandidatesHaveRows, ThreadsTypeOK, Releases
<1>9. RouteNeedsWorker' BY DEF RouteNeedsWorker
<1>10. ReleasedIsUnrouted'
  <2> SUFFICES ASSUME NEW u \in Threads, conn'[u] # None, conn'[u].phase = "released"
               PROVE  u \notin route /\ jobOf'[u] # "running"
      BY DEF ReleasedIsUnrouted
  <2>1. CASE u = t BY <2>1, <1>2 DEF ReleasedIsUnrouted
  <2>2. CASE u # t BY <2>2, <1>2 DEF ReleasedIsUnrouted
  <2> QED BY <2>1, <2>2
<1>11. ReleaseEndsNoTurn' BY <1>4 DEF ReleaseEndsNoTurn
<1> QED BY <1>5, <1>6, <1>7, <1>8, <1>9, <1>10, <1>11

\* A Job changes and no row does.
LEMMA JobStep ==
    ASSUME ThreadsInv, NEW t \in Threads, conn' = conn,
           jobOf' \in [Threads -> {"none", "admitted", "called", "running"}],
           \A u \in Threads : u # t => jobOf'[u] = jobOf[u],
           conn[t] # None => jobOf'[t] = "none" \/ jobOf[t] # "none",
           jobOf'[t] = "running" => jobOf[t] = "running",
           sweeping' \in {sweeping, Bumped({t})},
           worker' \in Pids \/ worker' = worker, loaded' \subseteq Threads, route' \subseteq route
    PROVE  ThreadsInv'
<1> USE NoneIsNoRow DEF ThreadsInv
<1>4. /\ sweeping' \in Releases /\ sweeping'.at = sweeping.at /\ sweeping'.left = sweeping.left
      /\ sweeping'.thread = sweeping.thread /\ (sweeping'.same => sweeping.same)
      BY BumpedKeeps DEF ThreadsTypeOK
<1>5. ThreadsTypeOK' BY <1>4 DEF ThreadsTypeOK
<1>6. ReleasingIsIdle' BY DEF ReleasingIsIdle
<1>7. ReleaseIsOnRecord' BY <1>4 DEF ReleaseIsOnRecord
<1>8. CandidatesHaveRows' BY <1>4 DEF CandidatesHaveRows
<1>9. RouteNeedsWorker' BY DEF RouteNeedsWorker
<1>10. ReleasedIsUnrouted' BY DEF ReleasedIsUnrouted
<1>11. ReleaseEndsNoTurn' BY <1>4 DEF ReleaseEndsNoTurn
<1> QED BY <1>5, <1>6, <1>7, <1>8, <1>9, <1>10, <1>11

LEMMA AdmitStep == ASSUME ThreadsInv, NEW t \in Threads, AdmitWork(t) PROVE ThreadsInv'
<1>1. /\ jobOf' \in [Threads -> {"none", "admitted", "called", "running"}] /\ jobOf'[t] = "admitted"
      /\ \A u \in Threads : u # t => jobOf'[u] = jobOf[u]
      BY DEF AdmitWork, ThreadsInv, ThreadsTypeOK
<1>2. sweeping' = Bumped({t}) /\ UNCHANGED <<worker, loaded, route>> BY DEF AdmitWork
<1>3. CASE conn[t] = None
  <2>1. conn' = conn BY <1>3 DEF AdmitWork, ThreadsInv, ThreadsTypeOK
  <2> QED BY <2>1, <1>1, <1>2, <1>3, JobStep DEF ThreadsInv, ThreadsTypeOK
<1>4. CASE conn[t] # None
  <2> DEFINE row == [conn[t] EXCEPT !.phase = "connected", !.handoff = FALSE]
  <2>1. conn' = [conn EXCEPT ![t] = row] BY <1>4 DEF AdmitWork
  <2>2. row \in ConnectionRows /\ row.phase = "connected"
        BY <1>4 DEF ThreadsInv, ThreadsTypeOK, ConnectionRows
  <2> HIDE DEF row
  <2> QED BY <2>1, <2>2, <1>1, <1>2, <1>4, RowStep
<1> QED BY <1>3, <1>4

LEMMA HandoffStep ==
    ASSUME ThreadsInv, NEW t \in Threads,
           RequestHandoff(t) \/ CancelHandoff(t) \/ SupersedeHandoff(t) \/ GrowsIdle(t)
    PROVE  ThreadsInv'
<1>1. /\ conn[t] # None /\ UNCHANGED <<jobOf, worker, loaded, route>>
      /\ sweeping' = Bumped({t}) \/ sweeping' = sweeping
      BY DEF RequestHandoff, CancelHandoff, SupersedeHandoff, GrowsIdle
<1>2. conn[t] \in ConnectionRows BY <1>1 DEF ThreadsInv, ThreadsTypeOK
<1>3. PICK row \in ConnectionRows :
          /\ conn' = [conn EXCEPT ![t] = row]
          /\ row.phase = "releasing" => conn[t].phase = "releasing"
          /\ row.phase = "released" => conn[t].phase = "released"
          /\ sweeping' = sweeping => row.phase = conn[t].phase \/ sweeping' = Bumped({t})
  <2>1. CASE RequestHandoff(t)
    <3> DEFINE phase == IF conn[t].phase = "released" THEN "released" ELSE "waiting"
               row == [conn[t] EXCEPT !.phase = phase, !.handoff = TRUE]
    <3>1. conn' = [conn EXCEPT ![t] = row] BY <2>1, <1>2 DEF RequestHandoff, ThreadsInv, ThreadsTypeOK, ConnectionRows
    <3>2. phase \in {"released", "waiting"} /\ (phase = "released" => conn[t].phase = "released") OBVIOUS
    <3> HIDE DEF phase
    <3>3. row \in ConnectionRows /\ row.phase = phase BY <3>2, <1>2 DEF ConnectionRows
    <3> HIDE DEF row
    <3> QED BY <3>1, <3>2, <3>3, <2>1 DEF RequestHandoff
  <2>2. CASE CancelHandoff(t)
    <3> DEFINE phase == IF conn[t].phase \in {"unsubscribed", "released"} THEN conn[t].phase ELSE "connected"
               row == [conn[t] EXCEPT !.phase = phase, !.handoff = FALSE]
    <3>1. conn' = [conn EXCEPT ![t] = row] BY <2>2, <1>2 DEF CancelHandoff, ThreadsInv, ThreadsTypeOK, ConnectionRows
    <3>2. phase \in {"unsubscribed", "released", "connected"} /\ (phase = "released" => conn[t].phase = "released")
          OBVIOUS
    <3> HIDE DEF phase
    <3>3. row \in ConnectionRows /\ row.phase = phase BY <3>2, <1>2 DEF ConnectionRows
    <3> QED BY <3>1, <3>2, <3>3, <2>2 DEF CancelHandoff
  <2>3. CASE SupersedeHandoff(t)
    <3> DEFINE row == [conn[t] EXCEPT !.phase = "blocked", !.handoff = FALSE]
    <3>1. conn' = [conn EXCEPT ![t] = row] BY <2>3, <1>2 DEF SupersedeHandoff, ThreadsInv, ThreadsTypeOK
    <3>2. row \in ConnectionRows /\ row.phase = "blocked" BY <1>2 DEF ConnectionRows
    <3> QED BY <3>1, <3>2, <2>3 DEF SupersedeHandoff
  <2>4. CASE GrowsIdle(t)
    <3> DEFINE row == [conn[t] EXCEPT !.finished = "idle"]
    <3>1. conn' = [conn EXCEPT ![t] = row] BY <2>4, <1>2 DEF GrowsIdle, ThreadsInv, ThreadsTypeOK
    <3>2. row \in ConnectionRows /\ row.phase = conn[t].phase BY <1>2 DEF ConnectionRows
    <3> QED BY <3>1, <3>2, <2>4 DEF GrowsIdle
  <2> QED BY <2>1, <2>2, <2>3, <2>4
<1>4. jobOf' \in [Threads -> {"none", "admitted", "called", "running"}] BY <1>1 DEF ThreadsInv, ThreadsTypeOK
<1> QED BY <1>1, <1>3, <1>4, RowStep

LEMMA CallStep == ASSUME ThreadsInv, NEW t \in Threads, CallTool(t) PROVE ThreadsInv'
<1>1. /\ jobOf[t] = "admitted" /\ jobOf'[t] \in {"none", "called"}
      /\ jobOf' \in [Threads -> {"none", "admitted", "called", "running"}]
      /\ \A u \in Threads : u # t => jobOf'[u] = jobOf[u]
      BY DEF CallTool, ThreadsInv, ThreadsTypeOK
<1>2. UNCHANGED <<conn, worker, loaded, route, sweeping>> BY DEF CallTool
<1> QED BY <1>1, <1>2, JobStep DEF ThreadsInv, ThreadsTypeOK

LEMMA RefusedStep == ASSUME ThreadsInv, NEW t \in Threads, NEW p \in Pids, TurnRefused(t, p) PROVE ThreadsInv'
<1>1. /\ jobOf'[t] = "none"
      /\ jobOf' \in [Threads -> {"none", "admitted", "called", "running"}]
      /\ \A u \in Threads : u # t => jobOf'[u] = jobOf[u]
      BY DEF TurnRefused, ThreadsInv, ThreadsTypeOK
<1>2. /\ UNCHANGED <<conn, route, sweeping>> /\ worker' = p /\ loaded' \subseteq Threads
      BY DEF TurnRefused, ThreadsInv, ThreadsTypeOK
<1> QED BY <1>1, <1>2, JobStep DEF ThreadsInv, ThreadsTypeOK

LEMMA OwnedStep == ASSUME ThreadsInv, NEW t \in Threads, ExternallyOwned(t) PROVE ThreadsInv'
<1> DEFINE row == [conn[t] EXCEPT !.phase = "blocked"]
<1>1. /\ conn[t] # None /\ jobOf'[t] = "none"
      /\ jobOf' \in [Threads -> {"none", "admitted", "called", "running"}]
      /\ \A u \in Threads : u # t => jobOf'[u] = jobOf[u]
      BY DEF ExternallyOwned, ThreadsInv, ThreadsTypeOK
<1>2. /\ UNCHANGED <<worker, loaded, route>> /\ sweeping' = Bumped({t})
      /\ conn' = [conn EXCEPT ![t] = row]
      BY DEF ExternallyOwned
<1>3. row \in ConnectionRows /\ row.phase = "blocked"
      BY <1>1 DEF ThreadsInv, ThreadsTypeOK, ConnectionRows
<1> HIDE DEF row
<1> QED BY <1>1, <1>2, <1>3, RowStep

\* The end of work notes when; its row says nothing else.
LEMMA FinishedRow ==
    ASSUME ThreadsTypeOK, NEW t \in Threads, conn[t] # None
    PROVE  FinishedWork(t) \in ConnectionRows /\ FinishedWork(t).phase = conn[t].phase
<1>1. conn[t] \in ConnectionRows BY DEF ThreadsTypeOK
<1> QED BY <1>1 DEF FinishedWork, ConnectionRows

LEMMA EndsStep == ASSUME ThreadsInv, NEW t \in Threads, WorkEnds(t) PROVE ThreadsInv'
<1>1. /\ jobOf'[t] = "none"
      /\ jobOf' \in [Threads -> {"none", "admitted", "called", "running"}]
      /\ \A u \in Threads : u # t => jobOf'[u] = jobOf[u]
      BY DEF WorkEnds, ThreadsInv, ThreadsTypeOK
<1>2. /\ UNCHANGED <<worker, loaded, route>> /\ sweeping' = Bumped({t})
      /\ conn' = [conn EXCEPT ![t] = FinishedWork(t)]
      BY DEF WorkEnds
<1>3. CASE conn[t] = None
  <2>1. conn' = conn BY <1>2, <1>3 DEF FinishedWork, ThreadsInv, ThreadsTypeOK
  <2> QED BY <2>1, <1>1, <1>2, JobStep DEF ThreadsInv, ThreadsTypeOK
<1>4. CASE conn[t] # None BY <1>1, <1>2, <1>4, FinishedRow, RowStep DEF ThreadsInv
<1> QED BY <1>3, <1>4

LEMMA ClosedStep == ASSUME ThreadsInv, NEW t \in Threads, ThreadClosed(t) PROVE ThreadsInv'
<1>1. /\ UNCHANGED <<conn, jobOf, worker, sweeping>> /\ loaded' \subseteq Threads /\ route' \subseteq route
      BY DEF ThreadClosed, ThreadsInv, ThreadsTypeOK
<1> QED BY <1>1, JobStep DEF ThreadsInv, ThreadsTypeOK

\* A turn begins only for a Job, and so on a row that is not being released.
LEMMA TurnStep == ASSUME ThreadsInv, NEW t \in Threads, NEW p \in Pids, TurnBegins(t, p) PROVE ThreadsInv'
<1> USE NoneIsNoRow DEF ThreadsInv
<1> DEFINE row == IF conn[t] = None THEN [phase |-> "connected", handoff |-> FALSE, finished |-> "never", pid |-> p]
                  ELSE [conn[t] EXCEPT !.pid = p]
<1>1. /\ jobOf[t] = "called" /\ ~Maintenance /\ worker' = p /\ sweeping' = sweeping
      /\ jobOf' = [jobOf EXCEPT ![t] = "running"] /\ loaded' = loaded \cup {t} /\ route' = route \cup {t}
      /\ conn' = [conn EXCEPT ![t] = row]
      BY DEF TurnBegins
<1>2. row \in ConnectionRows /\ (conn[t] # None => row.phase = conn[t].phase) /\ (conn[t] = None => row.phase = "connected")
      BY DEF ThreadsTypeOK, ConnectionRows
<1> HIDE DEF row
<1>3. row.phase \notin {"releasing", "released"} BY <1>1, <1>2 DEF ReleasingIsIdle
<1>4. \A u \in Threads : conn'[u] = IF u = t THEN row ELSE conn[u] BY <1>1 DEF ThreadsTypeOK
<1>5. \A u \in Threads : jobOf'[u] = IF u = t THEN "running" ELSE jobOf[u] BY <1>1 DEF ThreadsTypeOK
<1>6. ThreadsTypeOK' BY <1>1, <1>2 DEF ThreadsTypeOK
<1>7. ReleasingIsIdle' BY <1>3, <1>4, <1>5 DEF ReleasingIsIdle
<1>8. ReleaseIsOnRecord'
  <2>1. ASSUME sweeping.at \notin {"off", "next"}
        PROVE  /\ conn'[sweeping.thread] # None
               /\ (sweeping.same => conn'[sweeping.thread].phase = "releasing")
    <3>1. sweeping.thread \in Threads /\ conn[sweeping.thread] # None BY <2>1 DEF ReleaseIsOnRecord
    <3>2. CASE sweeping.thread = t
      <4>1. ~sweeping.same BY <2>1, <3>1, <3>2, <1>2, <1>3 DEF ReleaseIsOnRecord
      <4> QED BY <4>1, <3>1, <3>2, <1>2, <1>4
    <3>3. CASE sweeping.thread # t BY <2>1, <3>1, <3>3, <1>4 DEF ReleaseIsOnRecord
    <3> QED BY <3>2, <3>3
  <2> QED BY <2>1, <1>1 DEF ReleaseIsOnRecord
<1>9. CandidatesHaveRows' BY <1>1, <1>2, <1>4 DEF CandidatesHaveRows, ThreadsTypeOK, Releases
<1>10. RouteNeedsWorker' BY <1>1 DEF RouteNeedsWorker
<1>11. ReleasedIsUnrouted' BY <1>1, <1>3, <1>4, <1>5 DEF ReleasedIsUnrouted
<1>12. ReleaseEndsNoTurn' BY <1>1 DEF ReleaseEndsNoTurn, Maintenance
<1> QED BY <1>6, <1>7, <1>8, <1>9, <1>10, <1>11, <1>12

LEMMA ExitStep == ASSUME ThreadsInv, WorkerExits PROVE ThreadsInv'
<1> USE NoneIsNoRow DEF ThreadsInv
<1> DEFINE ending == {t \in Threads : jobOf[t] = "running"}
<1>1. /\ worker' = None /\ loaded' = {} /\ route' = {}
      /\ conn' = [t \in Threads |-> IF t \in ending THEN FinishedWork(t) ELSE conn[t]]
      /\ jobOf' = [t \in Threads |-> IF t \in ending THEN "none" ELSE jobOf[t]]
      /\ sweeping' = Bumped(ending)
      BY DEF WorkerExits, Exited
<1>2. \A t \in Threads : (conn'[t] = None <=> conn[t] = None) /\ (conn[t] # None => conn'[t].phase = conn[t].phase)
                          /\ conn'[t] \in ConnectionRows \cup {None}
      BY <1>1, FinishedRow DEF FinishedWork, ThreadsTypeOK
<1>3. /\ sweeping' \in Releases /\ sweeping'.at = sweeping.at /\ sweeping'.left = sweeping.left
      /\ sweeping'.thread = sweeping.thread /\ (sweeping'.same => sweeping.same)
      BY <1>1, BumpedKeeps
<1>4. /\ jobOf' \in [Threads -> {"none", "admitted", "called", "running"}]
      /\ \A t \in Threads : jobOf'[t] # "running" /\ (jobOf[t] = "none" => jobOf'[t] = "none")
      BY <1>1 DEF ThreadsTypeOK
<1>5. ThreadsTypeOK' BY <1>1, <1>2, <1>3, <1>4 DEF ThreadsTypeOK
<1>6. ReleasingIsIdle' BY <1>2, <1>4 DEF ReleasingIsIdle
<1>7. ReleaseIsOnRecord' BY <1>2, <1>3 DEF ReleaseIsOnRecord
<1>8. CandidatesHaveRows' BY <1>2, <1>3 DEF CandidatesHaveRows, ThreadsTypeOK, Releases
<1>9. RouteNeedsWorker' BY <1>1 DEF RouteNeedsWorker
<1>10. ReleasedIsUnrouted' BY <1>1, <1>4 DEF ReleasedIsUnrouted
<1>11. ReleaseEndsNoTurn' BY <1>4 DEF ReleaseEndsNoTurn
<1> QED BY <1>5, <1>6, <1>7, <1>8, <1>9, <1>10, <1>11

LEMMA BridgeStep == ASSUME ThreadsInv, BridgeRestarts PROVE ThreadsInv'
<1> USE DEF ThreadsInv
<1>1. /\ worker' = None /\ loaded' = {} /\ route' = {} /\ conn' = conn /\ sweeping' = NoRelease
      /\ jobOf' \in [Threads -> {"none", "admitted", "called", "running"}]
      /\ \A t \in Threads : jobOf'[t] = "none"
      BY DEF BridgeRestarts
<1>2. NoRelease \in Releases /\ NoRelease.at = "off" /\ NoRelease.left = {} BY DEF NoRelease, Releases
<1>3. ThreadsTypeOK' BY <1>1, <1>2 DEF ThreadsTypeOK
<1> QED BY <1>1, <1>2, <1>3
        DEF ReleasingIsIdle, ReleaseIsOnRecord, CandidatesHaveRows, RouteNeedsWorker, ReleasedIsUnrouted, ReleaseEndsNoTurn

--------------------------------------------------------------------------
(* Steps of the sweep *)

\* What an answer makes of a row.
LEMMA AnsweredRow ==
    ASSUME ThreadsInv, NEW phase \in {"released", "blocked", "unsubscribed"}, NEW closed \in SUBSET Threads,
           sweeping.at \notin {"off", "next"}, Answer(phase, closed), NEW t \in Threads
    PROVE  /\ conn'[t] \in ConnectionRows \cup {None} /\ (conn'[t] = None <=> conn[t] = None)
           /\ \/ conn'[t] = conn[t]
              \/ /\ jobOf[t] = "none" /\ conn'[t] # None
                 /\ conn'[t].phase = "released" => (t = sweeping.thread /\ phase = "released") \/ t \in closed
<1> USE NoneIsNoRow DEF ThreadsInv
<1>1. conn'[t] = CASE t = sweeping.thread -> IF sweeping.same THEN [conn[t] EXCEPT !.phase = phase] ELSE conn[t]
                   [] t \in closed \ {sweeping.thread} /\ Eligible(t) -> [conn[t] EXCEPT !.phase = "released"]
                   [] OTHER -> conn[t]
      BY DEF Answer, Applies
<1>2. sweeping.thread \in Threads /\ conn[sweeping.thread] # None
      /\ (sweeping.same => conn[sweeping.thread].phase = "releasing")
      BY DEF ReleaseIsOnRecord
<1>3. conn[t] \in ConnectionRows \cup {None} BY DEF ThreadsTypeOK
<1>4. CASE t = sweeping.thread /\ sweeping.same
  <2>1. conn'[t] = [conn[t] EXCEPT !.phase = phase] BY <1>1, <1>4
  <2>2. conn'[t] \in ConnectionRows /\ conn'[t].phase = phase BY <2>1, <1>2, <1>3, <1>4 DEF ConnectionRows
  <2>3. jobOf[t] = "none" BY <1>2, <1>4 DEF ReleasingIsIdle
  <2> QED BY <2>2, <2>3, <1>2, <1>4
<1>5. CASE t = sweeping.thread /\ ~sweeping.same
  <2>1. conn'[t] = conn[t] BY <1>1, <1>5
  <2> QED BY <2>1, <1>3
<1>6. CASE t # sweeping.thread /\ t \in closed /\ Eligible(t)
  <2>1. conn'[t] = [conn[t] EXCEPT !.phase = "released"] BY <1>1, <1>6
  <2>2. conn[t] # None /\ jobOf[t] = "none" BY <1>6 DEF Eligible, Unfinished
  <2>3. conn'[t] \in ConnectionRows BY <2>1, <2>2, <1>3 DEF ConnectionRows
  <2> QED BY <2>2, <2>3, <1>6
<1>7. CASE t # sweeping.thread /\ ~(t \in closed /\ Eligible(t))
  <2>1. conn'[t] = conn[t] BY <1>1, <1>7
  <2> QED BY <2>1, <1>3
<1> QED BY <1>4, <1>5, <1>6, <1>7

\* An answer of released reaches only conversations that are routed nowhere.
LEMMA AnswerStep ==
    ASSUME ThreadsInv, NEW phase \in {"released", "blocked", "unsubscribed"}, NEW closed \in SUBSET Threads,
           sweeping.at \notin {"off", "next"}, Answer(phase, closed), jobOf' = jobOf,
           loaded' \subseteq Threads, route' \subseteq route, worker' = worker \/ (worker' = None /\ route' = {}),
           phase = "released" => sweeping.thread \notin route', closed \cap route' = {}
    PROVE  ThreadsInv'
<1> USE NoneIsNoRow DEF ThreadsInv
<1>1. \A t \in Threads :
          /\ conn'[t] \in ConnectionRows \cup {None} /\ (conn'[t] = None <=> conn[t] = None)
          /\ \/ conn'[t] = conn[t]
             \/ /\ jobOf[t] = "none" /\ conn'[t] # None
                /\ conn'[t].phase = "released" => (t = sweeping.thread /\ phase = "released") \/ t \in closed
      BY AnsweredRow
<1>2. conn' \in [Threads -> ConnectionRows \cup {None}]
  <2>1. DOMAIN conn' = Threads /\ conn' = [t \in Threads |-> conn'[t]] BY DEF Answer
  <2> QED BY <2>1, <1>1
<1>3. sweeping' \in Releases /\ sweeping'.at = "next" /\ sweeping'.left = sweeping.left
      BY DEF Answer, ThreadsTypeOK, Releases
<1>4. ThreadsTypeOK' BY <1>2, <1>3 DEF ThreadsTypeOK
<1>5. ReleasingIsIdle' BY <1>1 DEF ReleasingIsIdle
<1>6. ReleaseIsOnRecord' BY <1>3 DEF ReleaseIsOnRecord
<1>7. CandidatesHaveRows' BY <1>1, <1>3 DEF CandidatesHaveRows, ThreadsTypeOK, Releases
<1>8. RouteNeedsWorker' BY DEF RouteNeedsWorker
<1>9. ReleasedIsUnrouted'
  <2> SUFFICES ASSUME NEW t \in Threads, conn'[t] # None, conn'[t].phase = "released"
               PROVE  t \notin route' /\ jobOf'[t] # "running"
      BY DEF ReleasedIsUnrouted
  <2> QED BY <1>1 DEF ReleasedIsUnrouted
<1>10. ReleaseEndsNoTurn' BY <1>3 DEF ReleaseEndsNoTurn
<1> QED BY <1>4, <1>5, <1>6, <1>7, <1>8, <1>9, <1>10

\* The release goes on to its next check.
LEMMA GoesStep ==
    ASSUME ThreadsInv, sweeping.at \notin {"off", "next"}, sweeping' \in Releases, sweeping'.at \notin {"off", "next"},
           sweeping'.thread = sweeping.thread, sweeping'.same = sweeping.same, sweeping'.left = sweeping.left,
           UNCHANGED <<conn, jobOf, worker, loaded, route>>,
           sweeping'.at = "closing" => \A t \in Threads : jobOf[t] # "running"
    PROVE  ThreadsInv'
<1> USE DEF ThreadsInv
<1>1. ThreadsTypeOK' BY DEF ThreadsTypeOK
<1>2. ReleasingIsIdle' BY DEF ReleasingIsIdle
<1>3. ReleaseIsOnRecord' BY DEF ReleaseIsOnRecord
<1>4. CandidatesHaveRows' BY DEF CandidatesHaveRows
<1>5. RouteNeedsWorker' /\ ReleasedIsUnrouted' BY DEF RouteNeedsWorker, ReleasedIsUnrouted
<1>6. ReleaseEndsNoTurn' BY DEF ReleaseEndsNoTurn
<1> QED BY <1>1, <1>2, <1>3, <1>4, <1>5, <1>6

LEMMA GoesTypes ==
    ASSUME ThreadsTypeOK, NEW at \in {"checking", "unsubscribing", "listing", "closing"}, Goes(at)
    PROVE  /\ sweeping' \in Releases /\ sweeping'.at = at /\ sweeping'.thread = sweeping.thread
           /\ sweeping'.same = sweeping.same /\ sweeping'.left = sweeping.left /\ conn' = conn
BY DEF Goes, ThreadsTypeOK, Releases

LEMMA GoesOn ==
    ASSUME ThreadsInv, sweeping.at \notin {"off", "next"},
           NEW at \in {"checking", "unsubscribing", "listing"}, Goes(at),
           UNCHANGED <<jobOf, worker, loaded, route>>
    PROVE  ThreadsInv'
<1>1. /\ sweeping' \in Releases /\ sweeping'.at = at /\ sweeping'.thread = sweeping.thread
      /\ sweeping'.same = sweeping.same /\ sweeping'.left = sweeping.left /\ conn' = conn
      BY GoesTypes DEF ThreadsInv
<1> QED BY <1>1, GoesStep

LEMMA UnroutedStep == ASSUME ThreadsInv, ReleaseUnrouted PROVE ThreadsInv'
<1>1. sweeping.thread \notin route BY DEF ReleaseUnrouted, ThreadsInv, RouteNeedsWorker
<1> QED BY <1>1, AnswerStep DEF ReleaseUnrouted, ThreadsInv, ThreadsTypeOK

LEMMA ChecksStep == ASSUME ThreadsInv, NEW safe \in BOOLEAN, ReleaseChecks(safe) PROVE ThreadsInv'
<1>1. sweeping.at \notin {"off", "next"} /\ UNCHANGED <<jobOf, worker, loaded, route>> /\ loaded \subseteq Threads
      BY DEF ReleaseChecks, ThreadsInv, ThreadsTypeOK
<1>2. Goes("checking") \/ Goes("unsubscribing") \/ Answer("blocked", {}) BY DEF ReleaseChecks
<1> QED BY <1>1, <1>2, GoesOn, AnswerStep

LEMMA UnsubscribesStep == ASSUME ThreadsInv, ReleaseUnsubscribes PROVE ThreadsInv'
<1>1. sweeping.at \notin {"off", "next"} /\ UNCHANGED <<jobOf, worker, loaded>> /\ loaded \subseteq Threads
      BY DEF ReleaseUnsubscribes, ThreadsInv, ThreadsTypeOK
<1>2. \/ Answer("blocked", {}) /\ route' = route
      \/ Goes("listing") /\ route' = route
      \/ Answer("released", {}) /\ route' = route \ {sweeping.thread}
      BY DEF ReleaseUnsubscribes
<1> QED BY <1>1, <1>2, GoesOn, AnswerStep

LEMMA ListsStep == ASSUME ThreadsInv, ReleaseLists PROVE ThreadsInv'
<1>1. sweeping.at \notin {"off", "next"} /\ UNCHANGED <<jobOf, worker, loaded>> /\ loaded \subseteq Threads
      BY DEF ReleaseLists, ThreadsInv, ThreadsTypeOK
<1>2. \/ (Answer("blocked", {}) \/ Answer("unsubscribed", {})) /\ route' = route
      \/ sweeping' = [sweeping EXCEPT !.at = "retiring", !.list = loaded] /\ UNCHANGED <<conn, route>>
      \/ Answer("released", {}) /\ route' = route \ {sweeping.thread}
      BY DEF ReleaseLists
<1>3. CASE sweeping' = [sweeping EXCEPT !.at = "retiring", !.list = loaded] /\ UNCHANGED <<conn, route>>
  <2>1. /\ sweeping' \in Releases /\ sweeping'.at = "retiring" /\ sweeping'.thread = sweeping.thread
        /\ sweeping'.same = sweeping.same /\ sweeping'.left = sweeping.left
        BY <1>1, <1>3 DEF ThreadsInv, ThreadsTypeOK, Releases
  <2> QED BY <1>1, <1>3, <2>1, GoesStep
<1> QED BY <1>1, <1>2, <1>3, AnswerStep

\* Nobody calls the worker: no turn of it runs.
LEMMA RetiringIsQuiet == ASSUME NEW ids, Retires(ids) PROVE \A t \in Threads : jobOf[t] # "running"
<1> DEFINE calling == {t \in Threads : jobOf[t] \in {"called", "running"}}
<1>1. Cardinality(calling) = 0 BY DEF Retires, ActiveCalls
<1>2. IsFiniteSet(calling) BY NoneIsNoRow, FS_Subset
<1>3. calling = {} BY <1>1, <1>2, FS_EmptySet
<1> QED BY <1>3

LEMMA RetiresStep == ASSUME ThreadsInv, NEW safe \in BOOLEAN, ReleaseRetires(safe) PROVE ThreadsInv'
<1>1. sweeping.at \notin {"off", "next"} /\ UNCHANGED <<jobOf, worker, loaded, route>> /\ loaded \subseteq Threads
      BY DEF ReleaseRetires, ThreadsInv, ThreadsTypeOK
<1>2. \/ Answer("blocked", {}) \/ Answer("unsubscribed", {})
      \/ Goes("closing") /\ Retires(sweeping.list)
      BY DEF ReleaseRetires
<1>3. CASE Goes("closing") /\ Retires(sweeping.list)
  <2>1. \A t \in Threads : jobOf[t] # "running" BY <1>3, RetiringIsQuiet
  <2>2. /\ sweeping' \in Releases /\ sweeping'.at = "closing" /\ sweeping'.thread = sweeping.thread
        /\ sweeping'.same = sweeping.same /\ sweeping'.left = sweeping.left /\ conn' = conn
        BY <1>3, GoesTypes DEF ThreadsInv
  <2> QED BY <1>1, <2>1, <2>2, GoesStep
<1> QED BY <1>1, <1>2, <1>3, AnswerStep

LEMMA ClosesStep == ASSUME ThreadsInv, ReleaseCloses PROVE ThreadsInv'
<1>1. /\ sweeping.at \notin {"off", "next"} /\ jobOf' = jobOf /\ worker' = None /\ loaded' = {} /\ route' = {}
      /\ Answer("released", sweeping.list)
      BY DEF ReleaseCloses
<1>2. sweeping.list \in SUBSET Threads BY DEF ThreadsInv, ThreadsTypeOK, Releases
<1> QED BY <1>1, <1>2, AnswerStep

\* The sweep begins, ends, and passes over a candidate.
LEMMA SweepRests ==
    ASSUME ThreadsInv, sweeping' \in Releases, sweeping'.at \in {"off", "next"},
           \A t \in sweeping'.left : conn[t] # None,
           UNCHANGED <<conn, jobOf, worker, loaded, route>>
    PROVE  ThreadsInv'
<1> USE DEF ThreadsInv
<1>1. ThreadsTypeOK' BY DEF ThreadsTypeOK
<1>2. ReleasingIsIdle' /\ RouteNeedsWorker' /\ ReleasedIsUnrouted'
      BY DEF ReleasingIsIdle, RouteNeedsWorker, ReleasedIsUnrouted
<1>3. ReleaseIsOnRecord' /\ CandidatesHaveRows' /\ ReleaseEndsNoTurn'
      BY DEF ReleaseIsOnRecord, CandidatesHaveRows, ReleaseEndsNoTurn
<1> QED BY <1>1, <1>2, <1>3

LEMMA BeginsStep == ASSUME ThreadsInv, SweepBegins PROVE ThreadsInv'
<1>1. sweeping' = [NoRelease EXCEPT !.at = "next", !.left = SweepCandidates, !.eligible = SweepCandidates]
      BY DEF SweepBegins
<1>2. SweepCandidates \subseteq Threads /\ \A t \in SweepCandidates : conn[t] # None BY DEF SweepCandidates
<1>3. sweeping' \in Releases /\ sweeping'.at = "next" /\ sweeping'.left = SweepCandidates
      BY <1>1, <1>2 DEF NoRelease, Releases
<1> QED BY <1>2, <1>3, SweepRests DEF SweepBegins

LEMMA SweepEndsStep == ASSUME ThreadsInv, SweepEnds PROVE ThreadsInv'
<1>1. NoRelease \in Releases /\ NoRelease.at = "off" /\ NoRelease.left = {} BY DEF NoRelease, Releases
<1> QED BY <1>1, SweepRests DEF SweepEnds

LEMMA TakesStep == ASSUME ThreadsInv, NEW t \in Threads, SweepTakes(t) PROVE ThreadsInv'
<1> USE NoneIsNoRow DEF ThreadsInv
<1> DEFINE rest == [sweeping EXCEPT !.left = @ \ {t}, !.thread = t, !.same = TRUE]
           begun == [rest EXCEPT !.at = "asked"]
           passed == [rest EXCEPT !.thread = None]
<1>1. /\ sweeping.at = "next" /\ t \in sweeping.left /\ conn[t] # None
      /\ UNCHANGED <<jobOf, worker, loaded, route>>
      BY DEF SweepTakes, CandidatesHaveRows
<1>2. conn[t] \in ConnectionRows BY <1>1 DEF ThreadsTypeOK
<1>3. rest \in Releases /\ rest.at = "next" /\ rest.left = sweeping.left \ {t} /\ rest.thread = t
      BY <1>1 DEF ThreadsTypeOK, Releases
<1> HIDE DEF rest
<1>4. /\ begun \in Releases /\ begun.at = "asked" /\ begun.left = rest.left /\ begun.thread = t
      /\ passed \in Releases /\ passed.at = "next" /\ passed.left = rest.left
      BY <1>3 DEF Releases
<1>5. \/ Eligible(t) /\ conn' = [conn EXCEPT ![t].phase = "releasing"] /\ sweeping' = begun
      \/ conn' = [conn EXCEPT ![t].phase = "blocked"] /\ sweeping' = passed
      \/ conn' = conn /\ sweeping' = passed
      BY DEF SweepTakes, rest
<1> HIDE DEF begun, passed
<1>6. \A u \in rest.left : u \in Threads /\ conn[u] # None BY <1>3 DEF CandidatesHaveRows, ThreadsTypeOK, Releases
<1>7. CASE conn' = conn /\ sweeping' = passed BY <1>1, <1>4, <1>6, <1>7, SweepRests
<1>8. ASSUME NEW phase \in {"releasing", "blocked"}, conn' = [conn EXCEPT ![t].phase = phase],
             phase = "releasing" => Eligible(t) /\ sweeping' = begun,
             sweeping' \in {begun, passed}, phase = "blocked" => sweeping' = passed
      PROVE  ThreadsInv'
  <2> DEFINE row == [conn[t] EXCEPT !.phase = phase]
  <2>1. row \in ConnectionRows /\ row.phase = phase BY <1>2 DEF ConnectionRows
  <2>2. conn' = [conn EXCEPT ![t] = row] BY <1>8
  <2> HIDE DEF row
  <2>3. conn' \in [Threads -> ConnectionRows \cup {None}]
        /\ \A u \in Threads : conn'[u] = IF u = t THEN row ELSE conn[u]
        BY <2>1, <2>2 DEF ThreadsTypeOK
  <2>4. ThreadsTypeOK' BY <2>3, <1>1, <1>4, <1>8 DEF ThreadsTypeOK
  <2>5. ReleasingIsIdle'
    <3>1. phase = "releasing" => jobOf[t] = "none" BY <1>8 DEF Eligible, Unfinished
    <3> QED BY <3>1, <2>1, <2>3, <1>1 DEF ReleasingIsIdle
  <2>6. ReleaseIsOnRecord' BY <2>1, <2>3, <1>4, <1>8 DEF ReleaseIsOnRecord
  <2>7. CandidatesHaveRows' BY <2>1, <2>3, <1>4, <1>6, <1>8 DEF CandidatesHaveRows
  <2>8. RouteNeedsWorker' BY <1>1 DEF RouteNeedsWorker
  <2>9. ReleasedIsUnrouted' BY <2>1, <2>3, <1>1 DEF ReleasedIsUnrouted
  <2>10. ReleaseEndsNoTurn' BY <1>4, <1>8 DEF ReleaseEndsNoTurn
  <2> QED BY <2>4, <2>5, <2>6, <2>7, <2>8, <2>9, <2>10
<1> QED BY <1>5, <1>7, <1>8

--------------------------------------------------------------------------
(* The theorems *)

LEMMA ThreadsStart == ASSUME ThreadsInit PROVE ThreadsInv
<1> USE DEF ThreadsInit
<1>1. NoRelease \in Releases /\ NoRelease.at = "off" /\ NoRelease.left = {} BY DEF NoRelease, Releases
<1>2. ThreadsTypeOK BY <1>1 DEF ThreadsTypeOK
<1>3. ReleasingIsIdle /\ RouteNeedsWorker /\ ReleasedIsUnrouted
      BY DEF ReleasingIsIdle, RouteNeedsWorker, ReleasedIsUnrouted
<1>4. ReleaseIsOnRecord /\ CandidatesHaveRows /\ ReleaseEndsNoTurn
      BY <1>1 DEF ReleaseIsOnRecord, CandidatesHaveRows, ReleaseEndsNoTurn
<1> QED BY <1>2, <1>3, <1>4 DEF ThreadsInv

LEMMA ThreadsStep == ASSUME ThreadsInv, [ThreadsNext]_threadVars PROVE ThreadsInv'
<1>1. CASE SweepSteps
  <2>1. CASE SweepBegins \/ SweepEnds BY <2>1, BeginsStep, SweepEndsStep
  <2>2. ASSUME NEW t \in Threads, SweepTakes(t) PROVE ThreadsInv' BY <2>2, TakesStep
  <2>3. CASE ReleaseUnrouted \/ ReleaseUnsubscribes \/ ReleaseLists \/ ReleaseCloses
        BY <2>3, UnroutedStep, UnsubscribesStep, ListsStep, ClosesStep
  <2>4. CASE ReleaseChecks(TRUE) \/ ReleaseChecks(FALSE) BY <2>4, ChecksStep
  <2>5. CASE ReleaseRetires(TRUE) \/ ReleaseRetires(FALSE) BY <2>5, RetiresStep
  <2> QED BY <1>1, <2>1, <2>2, <2>3, <2>4, <2>5 DEF SweepSteps
<1>2. CASE WorkerExits \/ BridgeRestarts BY <1>2, ExitStep, BridgeStep
<1>3. ASSUME NEW t \in Threads, AdmitWork(t) \/ CallTool(t) \/ WorkEnds(t) \/ ThreadClosed(t) \/ ExternallyOwned(t)
      PROVE  ThreadsInv'
      BY <1>3, AdmitStep, CallStep, EndsStep, ClosedStep, OwnedStep
<1>4. ASSUME NEW t \in Threads,
             RequestHandoff(t) \/ CancelHandoff(t) \/ SupersedeHandoff(t) \/ GrowsIdle(t)
      PROVE  ThreadsInv'
      BY <1>4, HandoffStep
<1>5. ASSUME NEW t \in Threads, NEW p \in Pids, TurnBegins(t, p) \/ TurnRefused(t, p) PROVE ThreadsInv'
      BY <1>5, TurnStep, RefusedStep
<1>6. CASE UNCHANGED threadVars
      BY <1>6 DEF threadVars, ThreadsInv, ThreadsTypeOK, ReleasingIsIdle, ReleaseIsOnRecord, CandidatesHaveRows,
                  RouteNeedsWorker, ReleasedIsUnrouted, ReleaseEndsNoTurn
<1> QED BY <1>1, <1>2, <1>3, <1>4, <1>5, <1>6 DEF ThreadsNext

\* A conversation on record as released is routed to no worker and runs no turn,
\* whatever Jobs, hand-offs and exits come between a release and its answer.
THEOREM ReleasedStaysUnrouted == ThreadsSpec => []ReleasedIsUnrouted
<1>1. ThreadsInit => ThreadsInv BY ThreadsStart
<1>2. ThreadsInv /\ [ThreadsNext]_threadVars => ThreadsInv' BY ThreadsStep
<1>3. ThreadsInv => ReleasedIsUnrouted BY DEF ThreadsInv
<1> QED BY <1>1, <1>2, <1>3, PTL DEF ThreadsSpec

\* A worker is closed only while no turn of it runs (releaseThreadConnection
\* checks again before it closes).
THEOREM ClosingEndsNoTurn == ThreadsSpec => []ReleaseEndsNoTurn
<1>1. ThreadsInit => ThreadsInv BY ThreadsStart
<1>2. ThreadsInv /\ [ThreadsNext]_threadVars => ThreadsInv' BY ThreadsStep
<1>3. ThreadsInv => ReleaseEndsNoTurn BY DEF ThreadsInv
<1> QED BY <1>1, <1>2, <1>3, PTL DEF ThreadsSpec

------------------------------------------------------------------------------
(* The theorem of AutomaticRecovery: the attempts dispatched for an incident  *)
(* never exceed its budget.  The journal counts an attempt before it is       *)
(* dispatched, so its row is ahead of the calls whatever happens in between.  *)

--------------------------------------------------------------------------
(* The inductive invariant *)

Sweeps == [at : {"off", "next", "read", "survey", "try"}, of : {"none", "due", "page", "one"},
           due : SUBSET Agents, named : SUBSET Agents, page : SUBSET Agents,
           agent : Agents \cup {None}, key : Incidents \cup {None},
           attempt : Nat, sent : Nat, taken : Nat, spent : BOOLEAN]

RecoveryTypeOK ==
    /\ problem \in [Agents -> BOOLEAN] /\ active \in [Agents -> BOOLEAN]
    /\ incident \in [Agents -> 0 .. MaxIncidents]
    /\ entry \in [Agents -> [Incidents -> IncidentRows \cup {None}]]
    /\ calls \in [Agents -> [Incidents -> Nat]]
    /\ sweep \in Sweeps

\* The row of an incident has counted every attempt dispatched for it.
RowsCount ==
    \A a \in Agents, i \in Incidents :
        calls[a][i] <= IF entry[a][i] = None THEN 0 ELSE entry[a][i].attempts

\* An incident that has not begun has no row.
FutureIsEmpty == \A a \in Agents, i \in Incidents : i > incident[a] => entry[a][i] = None

\* An incident that is going on has a number, and an inspected one a row.
OpenIsKnown ==
    \A a \in Agents :
        /\ active[a] => a \in Rechecks /\ incident[a] \in Incidents /\ entry[a][incident[a]] # None
        /\ problem[a] /\ a \notin Rechecks => incident[a] \in Incidents

\* A sweep that works on an agent works on an incident that has begun.
SweepIsOfIncident ==
    /\ sweep.at \in {"read", "survey", "try"} => sweep.agent \in Agents
    /\ sweep.at = "survey" /\ sweep.key # None => sweep.key \in Incidents /\ sweep.key <= incident[sweep.agent]
    /\ sweep.at = "try" => sweep.key \in Incidents /\ sweep.key <= incident[sweep.agent]

RecoveryInv == RecoveryTypeOK /\ RowsCount /\ FutureIsEmpty /\ OpenIsKnown /\ SweepIsOfIncident

--------------------------------------------------------------------------
(* What the journal's operations keep *)

LEMMA Budgets == Attempts \in Nat \ {0} /\ MaxIncidents \in Nat \ {0} /\ None \notin IncidentRows
BY RecoveryAssumption

LEMMA ObservedTypes == Observed \in IncidentRows /\ Observed # None /\ Observed.attempts = 0
<1>1. 0 \in 0 .. Attempts BY Budgets
<1>2. Observed \in IncidentRows /\ Observed.attempts = 0 BY <1>1 DEF Observed, IncidentRows
<1> QED BY <1>2, Budgets

\* finish settles a row and never touches its count (271).
LEMMA FinishKeeps ==
    ASSUME NEW r \in IncidentRows \cup {None}, NEW attempt, NEW result
    PROVE  /\ FinishedAttempt(r, attempt, result) \in IncidentRows \cup {None}
           /\ (FinishedAttempt(r, attempt, result) = None) <=> (r = None)
           /\ r # None => FinishedAttempt(r, attempt, result).attempts = r.attempts
<1>1. CASE ~(IsIn(r, "retrying") /\ r.attempts = attempt)
      BY <1>1 DEF FinishedAttempt
<1>2. CASE IsIn(r, "retrying") /\ r.attempts = attempt
  <2>1. r \in IncidentRows BY <1>2 DEF IsIn
  <2>2. PICK s \in {"retrying", "resolved", "blocked"} : FinishedAttempt(r, attempt, result) = [r EXCEPT !.state = s]
        BY <1>2 DEF FinishedAttempt
  <2>3. [r EXCEPT !.state = s] \in IncidentRows /\ [r EXCEPT !.state = s].attempts = r.attempts
        BY <2>1 DEF IncidentRows
  <2> QED BY <2>1, <2>2, <2>3, Budgets
<1> QED BY <1>1, <1>2

\* reconcileInterrupted blocks rows and never touches their counts (285).
LEMMA ReconcileKeeps ==
    ASSUME entry \in [Agents -> [Incidents -> IncidentRows \cup {None}]]
    PROVE  /\ Reconciled(entry) \in [Agents -> [Incidents -> IncidentRows \cup {None}]]
           /\ \A a \in Agents, i \in Incidents :
                 /\ (Reconciled(entry)[a][i] = None) <=> (entry[a][i] = None)
                 /\ entry[a][i] # None => Reconciled(entry)[a][i].attempts = entry[a][i].attempts
<1> SUFFICES ASSUME NEW a \in Agents, NEW i \in Incidents
             PROVE  /\ Reconciled(entry)[a][i] \in IncidentRows \cup {None}
                    /\ (Reconciled(entry)[a][i] = None) <=> (entry[a][i] = None)
                    /\ entry[a][i] # None => Reconciled(entry)[a][i].attempts = entry[a][i].attempts
    BY DEF Reconciled
<1> DEFINE r == entry[a][i]
<1>1. r \in IncidentRows \cup {None} OBVIOUS
<1>2. Reconciled(entry)[a][i] = IF IsIn(r, "retrying") /\ r.attempts >= Attempts
                                THEN [r EXCEPT !.state = "blocked"] ELSE r
      BY DEF Reconciled
<1>3. r # None => [r EXCEPT !.state = "blocked"] \in IncidentRows /\ [r EXCEPT !.state = "blocked"].attempts = r.attempts
      BY <1>1 DEF IncidentRows
<1> HIDE DEF r
<1>4. /\ Reconciled(entry)[a][i] \in IncidentRows \cup {None}
      /\ (Reconciled(entry)[a][i] = None) <=> (r = None)
      /\ r # None => Reconciled(entry)[a][i].attempts = r.attempts
      BY <1>1, <1>2, <1>3, Budgets DEF IsIn
<1> QED BY <1>4 DEF r

\* A commit of the journal that changes no count and no dispatch keeps the books.
LEMMA CountsKept ==
    ASSUME RecoveryInv, RecoveryTypeOK', calls' = calls,
           \A a \in Agents : incident'[a] >= incident[a],
           \A a \in Agents, i \in Incidents :
               /\ (entry'[a][i] = None) <=> (entry[a][i] = None)
               /\ entry[a][i] # None => entry'[a][i].attempts = entry[a][i].attempts
    PROVE  RowsCount' /\ FutureIsEmpty'
<1>1. RowsCount'
      BY DEF RecoveryInv, RowsCount
<1>2. FutureIsEmpty'
  <2> SUFFICES ASSUME NEW a \in Agents, NEW i \in Incidents, i > incident'[a] PROVE entry'[a][i] = None
      BY DEF FutureIsEmpty
  <2>1. incident[a] \in Nat /\ incident'[a] \in Nat /\ i \in Nat
        BY Budgets DEF RecoveryInv, RecoveryTypeOK, Incidents
  <2> QED BY <2>1 DEF RecoveryInv, FutureIsEmpty
<1> QED BY <1>1, <1>2

\* Incidents only begin: what a sweep works on remains an incident.
LEMMA SweepUnmoved ==
    ASSUME RecoveryInv, incident' \in [Agents -> 0 .. MaxIncidents],
           \A b \in Agents : incident'[b] >= incident[b], sweep' = sweep
    PROVE  SweepIsOfIncident'
<1>1. \A b \in Agents, k \in Incidents : k <= incident[b] => k <= incident'[b]
  <2> SUFFICES ASSUME NEW b \in Agents, NEW k \in Incidents, k <= incident[b] PROVE k <= incident'[b]
      OBVIOUS
  <2>1. k \in Nat /\ incident[b] \in Nat /\ incident'[b] \in Nat
        BY Budgets DEF RecoveryInv, RecoveryTypeOK, Incidents
  <2> QED BY <2>1
<1> QED BY <1>1 DEF RecoveryInv, SweepIsOfIncident

--------------------------------------------------------------------------
(* One lemma per group of actions *)

LEMMA ArisesStep == ASSUME RecoveryInv, NEW a \in Agents, Arises(a) PROVE RecoveryInv'
<1> USE Budgets DEF Arises, RecoveryInv
<1>1. incident' \in [Agents -> 0 .. MaxIncidents] /\ \A b \in Agents : incident'[b] >= incident[b]
  <2>1. \A b \in Agents : incident[b] \in 0 .. MaxIncidents BY DEF RecoveryTypeOK
  <2>2. CASE a \in Rechecks BY <2>1, <2>2 DEF RecoveryTypeOK
  <2>3. CASE a \notin Rechecks
    <3>1. incident' = [incident EXCEPT ![a] = incident[a] + 1] /\ incident[a] < MaxIncidents BY <2>3
    <3>2. incident[a] + 1 \in 0 .. MaxIncidents /\ incident[a] + 1 >= incident[a] BY <2>1, <3>1
    <3>3. \A b \in Agents : incident'[b] = IF b = a THEN incident[a] + 1 ELSE incident[b]
          BY <3>1 DEF RecoveryTypeOK
    <3>4. \A b \in Agents : incident'[b] >= incident[b] BY <2>1, <3>2, <3>3
    <3>5. incident' \in [Agents -> 0 .. MaxIncidents] BY <3>1, <3>2 DEF RecoveryTypeOK
    <3> QED BY <3>4, <3>5
  <2> QED BY <2>2, <2>3
<1>2. RecoveryTypeOK' BY <1>1 DEF RecoveryTypeOK
<1>3. RowsCount' /\ FutureIsEmpty' BY <1>1, <1>2, CountsKept
<1>4. OpenIsKnown'
  <2> SUFFICES ASSUME NEW b \in Agents
               PROVE  /\ active'[b] => b \in Rechecks /\ incident'[b] \in Incidents /\ entry'[b][incident'[b]] # None
                      /\ problem'[b] /\ b \notin Rechecks => incident'[b] \in Incidents
      BY DEF OpenIsKnown
  <2>1. CASE b # a BY <2>1, <1>2 DEF RecoveryTypeOK, OpenIsKnown
  <2>2. CASE b = a BY <2>2, <1>2 DEF RecoveryTypeOK, OpenIsKnown, Incidents
  <2> QED BY <2>1, <2>2
<1>5. SweepIsOfIncident' BY <1>1, SweepUnmoved
<1> QED BY <1>2, <1>3, <1>4, <1>5

LEMMA HealsStep == ASSUME RecoveryInv, NEW a \in Agents, Heals(a) PROVE RecoveryInv'
<1> USE DEF Heals, RecoveryInv
<1>1. RecoveryTypeOK' BY DEF RecoveryTypeOK
<1>2. RowsCount' /\ FutureIsEmpty' BY DEF RowsCount, FutureIsEmpty
<1>3. OpenIsKnown' BY DEF OpenIsKnown, RecoveryTypeOK
<1>4. SweepIsOfIncident' BY DEF SweepIsOfIncident
<1> QED BY <1>1, <1>2, <1>3, <1>4

\* observeRecheck opens an incident that had no row, or settles one that had.
LEMMA OpensStep == ASSUME RecoveryInv, NEW a \in Agents, ObserveRecheck(a), problem[a] PROVE RecoveryInv'
<1> DEFINE i0 == incident[a] + 1
<1> USE DEF RecoveryInv
<1>1. /\ a \in Rechecks /\ incident[a] < MaxIncidents
      /\ incident' = [incident EXCEPT ![a] = @ + 1] /\ entry' = [entry EXCEPT ![a][i0] = Observed]
      /\ active' = [active EXCEPT ![a] = TRUE]
      /\ UNCHANGED <<problem, sweep, calls>>
      BY DEF ObserveRecheck, RecoveryTypeOK
<1>2. \A b \in Agents : incident[b] \in 0 .. MaxIncidents BY DEF RecoveryTypeOK
<1>3. i0 \in Incidents /\ i0 > incident[a] /\ i0 \in 0 .. MaxIncidents BY <1>1, <1>2, Budgets DEF Incidents
<1>4. Observed \in IncidentRows /\ Observed # None /\ Observed.attempts = 0
      BY ObservedTypes
<1>5. \A b \in Agents : incident'[b] = IF b = a THEN i0 ELSE incident[b] BY <1>1 DEF RecoveryTypeOK
<1>6. \A b \in Agents, i \in Incidents : entry'[b][i] = IF b = a /\ i = i0 THEN Observed ELSE entry[b][i]
      BY <1>1, <1>3 DEF RecoveryTypeOK
<1> HIDE DEF i0
<1>7. RecoveryTypeOK'
  <2>1. incident' \in [Agents -> 0 .. MaxIncidents]
        BY <1>1, <1>3 DEF RecoveryTypeOK, i0
  <2>2. entry' \in [Agents -> [Incidents -> IncidentRows \cup {None}]]
        BY <1>1, <1>3, <1>4 DEF RecoveryTypeOK
  <2> QED BY <1>1, <2>1, <2>2 DEF RecoveryTypeOK
<1>8. RowsCount'
  <2> SUFFICES ASSUME NEW b \in Agents, NEW i \in Incidents
               PROVE  calls[b][i] <= IF entry'[b][i] = None THEN 0 ELSE entry'[b][i].attempts
      BY <1>1 DEF RowsCount
  <2>1. CASE b = a /\ i = i0
    <3>1. entry[a][i0] = None BY <1>3 DEF FutureIsEmpty
    <3>2. calls[a][i0] <= 0 BY <1>3, <3>1 DEF RowsCount
    <3> QED BY <2>1, <3>2, <1>4, <1>6
  <2>2. CASE ~(b = a /\ i = i0) BY <2>2, <1>6 DEF RowsCount
  <2> QED BY <2>1, <2>2
<1>9. FutureIsEmpty'
  <2> SUFFICES ASSUME NEW b \in Agents, NEW i \in Incidents, i > incident'[b] PROVE entry'[b][i] = None
      BY DEF FutureIsEmpty
  <2>1. CASE b = a
    <3>1. i > i0 /\ i \in Nat /\ i0 \in Nat BY <2>1, <1>3, <1>5, Budgets DEF Incidents
    <3>2. i # i0 /\ i > incident[a] BY <3>1, <1>2, <1>3
    <3> QED BY <2>1, <3>2, <1>6 DEF FutureIsEmpty
  <2>2. CASE b # a BY <2>2, <1>5, <1>6 DEF FutureIsEmpty
  <2> QED BY <2>1, <2>2
<1>10. OpenIsKnown'
  <2> SUFFICES ASSUME NEW b \in Agents
               PROVE  /\ active'[b] => b \in Rechecks /\ incident'[b] \in Incidents /\ entry'[b][incident'[b]] # None
                      /\ problem'[b] /\ b \notin Rechecks => incident'[b] \in Incidents
      BY DEF OpenIsKnown
  <2>1. CASE b = a BY <2>1, <1>1, <1>3, <1>4, <1>5, <1>6
  <2>2. CASE b # a
    <3>1. incident'[b] = incident[b] /\ active'[b] = active[b] /\ problem'[b] = problem[b]
          BY <2>2, <1>1, <1>5 DEF RecoveryTypeOK
    <3>2. \A i \in Incidents : entry'[b][i] = entry[b][i] BY <2>2, <1>6
    <3> QED BY <3>1, <3>2 DEF OpenIsKnown
  <2> QED BY <2>1, <2>2
<1>11. SweepIsOfIncident'
  <2>1. \A b \in Agents : incident'[b] >= incident[b] BY <1>2, <1>3, <1>5
  <2> QED BY <2>1, <1>1, <1>7, SweepUnmoved DEF RecoveryTypeOK
<1> QED BY <1>7, <1>8, <1>9, <1>10, <1>11

\* A commit that changes rows only, and no count, keeps the invariant.
LEMMA RowsKept ==
    ASSUME RecoveryInv, entry' \in [Agents -> [Incidents -> IncidentRows \cup {None}]],
           incident' = incident, calls' = calls,
           problem' \in [Agents -> BOOLEAN], active' \in [Agents -> BOOLEAN],
           \A a \in Agents : (problem'[a] => problem[a]) /\ (active'[a] => active[a]),
           sweep' \in Sweeps, SweepIsOfIncident',
           \A a \in Agents, i \in Incidents :
               /\ (entry'[a][i] = None) <=> (entry[a][i] = None)
               /\ entry[a][i] # None => entry'[a][i].attempts = entry[a][i].attempts
    PROVE  RecoveryInv'
<1>1. RecoveryTypeOK' BY DEF RecoveryInv, RecoveryTypeOK
<1>2. \A a \in Agents : incident'[a] >= incident[a] BY DEF RecoveryInv, RecoveryTypeOK
<1>3. RowsCount' /\ FutureIsEmpty' BY <1>1, <1>2, CountsKept
<1>4. OpenIsKnown' BY DEF RecoveryInv, OpenIsKnown
<1> QED BY <1>1, <1>3, <1>4 DEF RecoveryInv

LEMMA IncidentClosesStep == ASSUME RecoveryInv, NEW a \in Agents, ObserveRecheck(a), ~problem[a] PROVE RecoveryInv'
<1> DEFINE i0 == incident[a]
<1> USE DEF RecoveryInv
<1>1. /\ active[a] /\ incident' = incident /\ entry' = [entry EXCEPT ![a][i0].state = "resolved"]
      /\ active' = [active EXCEPT ![a] = FALSE] /\ UNCHANGED <<problem, sweep, calls>>
      BY DEF ObserveRecheck, RecoveryTypeOK
<1>2. i0 \in Incidents /\ entry[a][i0] # None /\ entry[a][i0] \in IncidentRows
      BY <1>1 DEF OpenIsKnown, RecoveryTypeOK
<1>3. [entry[a][i0] EXCEPT !.state = "resolved"] \in IncidentRows
      /\ [entry[a][i0] EXCEPT !.state = "resolved"].attempts = entry[a][i0].attempts
      BY <1>2 DEF IncidentRows
<1> HIDE DEF i0
<1>4. entry' \in [Agents -> [Incidents -> IncidentRows \cup {None}]]
      BY <1>1, <1>2, <1>3 DEF RecoveryTypeOK
<1>5. \A b \in Agents, i \in Incidents :
          entry'[b][i] = IF b = a /\ i = i0 THEN [entry[a][i0] EXCEPT !.state = "resolved"] ELSE entry[b][i]
      BY <1>1, <1>2 DEF RecoveryTypeOK
<1>6. SweepIsOfIncident' BY <1>1 DEF SweepIsOfIncident
<1>7. active' \in [Agents -> BOOLEAN] /\ \A b \in Agents : active'[b] => active[b]
      BY <1>1 DEF RecoveryTypeOK
<1>8. \A b \in Agents, i \in Incidents :
          /\ (entry'[b][i] = None) <=> (entry[b][i] = None)
          /\ entry[b][i] # None => entry'[b][i].attempts = entry[b][i].attempts
      BY <1>2, <1>3, <1>5, Budgets
<1> QED BY <1>1, <1>4, <1>6, <1>7, <1>8, RowsKept DEF RecoveryTypeOK

LEMMA BackoffStep == ASSUME RecoveryInv, NEW a \in Agents, NEW i0 \in Incidents, BackoffEnds(a, i0) PROVE RecoveryInv'
<1> USE DEF RecoveryInv
<1>1. /\ entry[a][i0] # None /\ entry[a][i0] \in IncidentRows
      /\ entry' = [entry EXCEPT ![a][i0].due = TRUE] /\ UNCHANGED <<problem, incident, active, sweep, calls>>
      BY DEF BackoffEnds, RecoveryTypeOK
<1>2. [entry[a][i0] EXCEPT !.due = TRUE] \in IncidentRows
      /\ [entry[a][i0] EXCEPT !.due = TRUE].attempts = entry[a][i0].attempts
      BY <1>1 DEF IncidentRows
<1>3. entry' \in [Agents -> [Incidents -> IncidentRows \cup {None}]]
      BY <1>1, <1>2 DEF RecoveryTypeOK
<1>4. \A b \in Agents, i \in Incidents :
          entry'[b][i] = IF b = a /\ i = i0 THEN [entry[a][i0] EXCEPT !.due = TRUE] ELSE entry[b][i]
      BY <1>1 DEF RecoveryTypeOK
<1>5. \A b \in Agents, i \in Incidents :
          /\ (entry'[b][i] = None) <=> (entry[b][i] = None)
          /\ entry[b][i] # None => entry'[b][i].attempts = entry[b][i].attempts
  <2>1. [entry[a][i0] EXCEPT !.due = TRUE] # None BY <1>2, Budgets
  <2> QED BY <1>1, <1>2, <1>4, <2>1
<1>6. SweepIsOfIncident' BY <1>1 DEF SweepIsOfIncident
<1> QED BY <1>1, <1>3, <1>5, <1>6, RowsKept DEF RecoveryTypeOK

--------------------------------------------------------------------------
(* Sweeps *)

LEMMA NoSweepTypes == NoSweep \in Sweeps /\ NoSweep.at = "off"
BY DEF NoSweep, Sweeps

LEMMA StartsStep ==
    ASSUME RecoveryInv, NEW of \in Agents \cup {All}, Starts(of), UNCHANGED <<problem, incident, active, calls>>
    PROVE  RecoveryInv'
<1>1. PICK D \in SUBSET DueAgents(Reconciled(entry)) :
          sweep' = [NoSweep EXCEPT !.at = "next", !.of = IF of = All THEN "due" ELSE "one",
                                   !.due = D, !.named = D, !.page = IF of = All THEN {} ELSE {of}]
      BY DEF Starts
<1>2. D \subseteq Agents BY <1>1 DEF DueAgents
<1>3. sweep' \in Sweeps /\ sweep'.at = "next" BY <1>1, <1>2, NoSweepTypes DEF NoSweep, Sweeps
<1>4. SweepIsOfIncident' BY <1>3 DEF SweepIsOfIncident
<1>5. entry' = Reconciled(entry) BY DEF Starts
<1> QED BY <1>3, <1>4, <1>5, ReconcileKeeps, RowsKept DEF RecoveryInv, RecoveryTypeOK

LEMMA RestartStep == ASSUME RecoveryInv, RecoveryRestarts PROVE RecoveryInv'
<1>1. entry' = Reconciled(entry) /\ sweep' = NoSweep /\ UNCHANGED <<problem, incident, active, calls>>
      BY DEF RecoveryRestarts
<1>2. SweepIsOfIncident' BY <1>1, NoSweepTypes DEF SweepIsOfIncident
<1> QED BY <1>1, <1>2, NoSweepTypes, ReconcileKeeps, RowsKept DEF RecoveryInv, RecoveryTypeOK

\* A step of the sweep between two agents.
LEMMA SweepMoves ==
    ASSUME RecoveryInv, sweep' \in Sweeps,
           sweep'.at \in {"off", "next"} \/ (sweep'.at = "read" /\ sweep'.agent \in Agents),
           UNCHANGED <<problem, incident, active, entry, calls>>
    PROVE  RecoveryInv'
<1>1. SweepIsOfIncident' BY DEF SweepIsOfIncident
<1> QED BY <1>1, RowsKept DEF RecoveryInv, RecoveryTypeOK

LEMMA SurveyedTypes ==
    ASSUME NEW s \in Sweeps, NEW a \in Agents
    PROVE  Surveyed(s, a) \in Sweeps /\ Surveyed(s, a).at = "read" /\ Surveyed(s, a).agent = a
<1> DEFINE n == s.taken + 1
<1>1. n \in Nat BY DEF Sweeps
<1>2. Surveyed(s, a) = [s EXCEPT !.at = "read", !.agent = a, !.taken = n] BY DEF Surveyed
<1> HIDE DEF n
<1>3. [s EXCEPT !.at = "read", !.agent = a, !.taken = n] \in Sweeps BY <1>1 DEF Sweeps
<1>4. /\ [s EXCEPT !.at = "read", !.agent = a, !.taken = n].at = "read"
      /\ [s EXCEPT !.at = "read", !.agent = a, !.taken = n].agent = a
      BY DEF Sweeps
<1> QED BY <1>2, <1>3, <1>4

LEMMA NextDueStep == ASSUME RecoveryInv, NextDue PROVE RecoveryInv'
<1> USE DEF RecoveryInv, RecoveryTypeOK
<1>1. CASE sweep' = [sweep EXCEPT !.of = "page", !.page = Page(agentCursor, PageRoom)]
  <2>1. Page(agentCursor, PageRoom) \subseteq Agents BY DEF Page, SmallestFew
  <2>2. sweep' \in Sweeps /\ sweep'.at = "next" BY <1>1, <2>1 DEF NextDue, Sweeps
  <2> QED BY <2>2, SweepMoves DEF NextDue
<1>2. CASE \E a \in sweep.due : sweep' = Surveyed([sweep EXCEPT !.due = @ \ {a}], a)
  <2>1. PICK a \in sweep.due : sweep' = Surveyed([sweep EXCEPT !.due = @ \ {a}], a) BY <1>2
  <2>2. a \in Agents /\ [sweep EXCEPT !.due = @ \ {a}] \in Sweeps BY <2>1 DEF Sweeps
  <2>3. sweep' \in Sweeps /\ sweep'.at = "read" /\ sweep'.agent \in Agents BY <2>1, <2>2, SurveyedTypes
  <2> QED BY <2>3, SweepMoves DEF NextDue
<1> QED BY <1>1, <1>2 DEF NextDue

LEMMA NextOfPageStep == ASSUME RecoveryInv, NextOfPage PROVE RecoveryInv'
<1> USE DEF RecoveryInv, RecoveryTypeOK
<1>1. CASE sweep' = NoSweep BY <1>1, NoSweepTypes, SweepMoves DEF NextOfPage
<1>2. CASE sweep' # NoSweep
  <2>1. PICK a \in SmallestFew(sweep.page, 1) :
            \/ sweep' = [[sweep EXCEPT !.page = @ \ {a}] EXCEPT !.taken = @ + 1]
            \/ sweep' = Surveyed([sweep EXCEPT !.page = @ \ {a}], a)
        BY <1>2 DEF NextOfPage
  <2>2. a \in Agents BY <2>1 DEF SmallestFew, Sweeps
  <2>3. [sweep EXCEPT !.page = @ \ {a}] \in Sweeps BY DEF Sweeps
  <2>4. [[sweep EXCEPT !.page = @ \ {a}] EXCEPT !.taken = @ + 1] \in Sweeps
        /\ [[sweep EXCEPT !.page = @ \ {a}] EXCEPT !.taken = @ + 1].at = "next"
    <3> DEFINE n == [sweep EXCEPT !.page = @ \ {a}].taken + 1
    <3>1. n \in Nat BY <2>3 DEF Sweeps
    <3> HIDE DEF n
    <3>2. [[sweep EXCEPT !.page = @ \ {a}] EXCEPT !.taken = n] \in Sweeps
          BY <2>3, <3>1 DEF Sweeps
    <3>3. [[sweep EXCEPT !.page = @ \ {a}] EXCEPT !.taken = n].at = "next"
          BY <2>3 DEF Sweeps, NextOfPage
    <3> QED BY <3>2, <3>3 DEF n
  <2>5. \/ sweep' \in Sweeps /\ sweep'.at = "next"
        \/ sweep' \in Sweeps /\ sweep'.at = "read" /\ sweep'.agent \in Agents
    <3>1. CASE sweep' = [[sweep EXCEPT !.page = @ \ {a}] EXCEPT !.taken = @ + 1] BY <3>1, <2>4
    <3>2. CASE sweep' = Surveyed([sweep EXCEPT !.page = @ \ {a}], a) BY <3>2, <2>2, <2>3, SurveyedTypes
    <3> QED BY <2>1, <3>1, <3>2
  <2> QED BY <2>5, SweepMoves DEF NextOfPage
<1> QED BY <1>1, <1>2

LEMMA LookupFailsStep == ASSUME RecoveryInv, CandidatesFail PROVE RecoveryInv'
<1>1. sweep' = NoSweep /\ UNCHANGED <<problem, incident, active, entry, calls>> BY DEF CandidatesFail
<1>2. sweep' \in Sweeps /\ sweep'.at = "off" BY <1>1, NoSweepTypes
<1> QED BY <1>1, <1>2, SweepMoves

\* candidates: the discovery opens the first incident of an inspected agent.
LEMMA DiscoversStep == ASSUME RecoveryInv, ReadCandidates, Discovers(sweep.agent) PROVE RecoveryInv'
<1> DEFINE a == sweep.agent
<1> USE DEF RecoveryInv
<1>1. a \in Agents /\ a \in Rechecks /\ incident[a] = 0 /\ 1 \in Incidents
      BY Budgets DEF SweepIsOfIncident, ReadCandidates, Discovers, Incidents
<1>2. /\ incident' = [incident EXCEPT ![a] = 1] /\ active' = [active EXCEPT ![a] = TRUE]
      /\ entry' = [entry EXCEPT ![a][1] = Observed] /\ UNCHANGED <<problem, calls>>
      /\ sweep' = [sweep EXCEPT !.at = "survey", !.key = IF Candidate(a) THEN incident'[a] ELSE None]
      BY DEF ReadCandidates
<1>3. Observed \in IncidentRows /\ Observed # None /\ Observed.attempts = 0
      BY ObservedTypes
<1> HIDE DEF a
<1>4. \A b \in Agents : incident'[b] = IF b = a THEN 1 ELSE incident[b] BY <1>1, <1>2 DEF RecoveryTypeOK
<1>5. \A b \in Agents, i \in Incidents : entry'[b][i] = IF b = a /\ i = 1 THEN Observed ELSE entry[b][i]
      BY <1>1, <1>2 DEF RecoveryTypeOK
<1>6. sweep' \in Sweeps /\ sweep'.at = "survey" /\ sweep'.agent = a
      /\ (sweep'.key # None => sweep'.key = 1)
      BY <1>1, <1>2, <1>4 DEF RecoveryTypeOK, Sweeps, a
<1>7. RecoveryTypeOK'
  <2>1. incident' \in [Agents -> 0 .. MaxIncidents]
    <3>1. 1 \in 0 .. MaxIncidents BY Budgets
    <3> QED BY <1>2, <3>1 DEF RecoveryTypeOK
  <2>2. entry' \in [Agents -> [Incidents -> IncidentRows \cup {None}]]
        BY <1>1, <1>2, <1>3 DEF RecoveryTypeOK
  <2> QED BY <1>2, <1>6, <2>1, <2>2 DEF RecoveryTypeOK
<1>8. RowsCount'
  <2> SUFFICES ASSUME NEW b \in Agents, NEW i \in Incidents
               PROVE  calls[b][i] <= IF entry'[b][i] = None THEN 0 ELSE entry'[b][i].attempts
      BY <1>2 DEF RowsCount
  <2>1. CASE b = a /\ i = 1
    <3>1. entry[a][1] = None BY <1>1 DEF FutureIsEmpty
    <3>2. calls[a][1] <= 0 BY <1>1, <3>1 DEF RowsCount
    <3> QED BY <2>1, <3>2, <1>3, <1>5
  <2>2. CASE ~(b = a /\ i = 1) BY <2>2, <1>5 DEF RowsCount
  <2> QED BY <2>1, <2>2
<1>9. FutureIsEmpty'
  <2> SUFFICES ASSUME NEW b \in Agents, NEW i \in Incidents, i > incident'[b] PROVE entry'[b][i] = None
      BY DEF FutureIsEmpty
  <2>1. CASE b = a
    <3>1. i # 1 /\ i > incident[a] BY <2>1, <1>1, <1>4 DEF Incidents
    <3> QED BY <2>1, <3>1, <1>5 DEF FutureIsEmpty
  <2>2. CASE b # a BY <2>2, <1>4, <1>5 DEF FutureIsEmpty
  <2> QED BY <2>1, <2>2
<1>10. OpenIsKnown'
  <2> SUFFICES ASSUME NEW b \in Agents
               PROVE  /\ active'[b] => b \in Rechecks /\ incident'[b] \in Incidents /\ entry'[b][incident'[b]] # None
                      /\ problem'[b] /\ b \notin Rechecks => incident'[b] \in Incidents
      BY DEF OpenIsKnown
  <2>1. CASE b = a BY <2>1, <1>1, <1>3, <1>4, <1>5
  <2>2. CASE b # a
    <3>1. incident'[b] = incident[b] /\ active'[b] = active[b] /\ problem'[b] = problem[b]
          BY <2>2, <1>2, <1>4 DEF RecoveryTypeOK
    <3>2. \A i \in Incidents : entry'[b][i] = entry[b][i] BY <2>2, <1>5
    <3> QED BY <3>1, <3>2 DEF OpenIsKnown
  <2> QED BY <2>1, <2>2
<1>11. SweepIsOfIncident' BY <1>1, <1>4, <1>6 DEF SweepIsOfIncident
<1> QED BY <1>7, <1>8, <1>9, <1>10, <1>11

LEMMA ReadStep == ASSUME RecoveryInv, ReadCandidates, ~Discovers(sweep.agent) PROVE RecoveryInv'
<1> DEFINE a == sweep.agent
<1> USE DEF RecoveryInv
<1>1. a \in Agents BY DEF SweepIsOfIncident, ReadCandidates
<1>2. /\ UNCHANGED <<problem, incident, active, entry, calls>>
      /\ sweep' = [sweep EXCEPT !.at = "survey", !.key = IF Candidate(a) THEN incident[a] ELSE None]
      BY DEF ReadCandidates
<1>3. Candidate(a) => incident[a] \in Incidents /\ incident[a] <= incident[a]
  <2>1. Candidate(a) => (active[a] \/ (problem[a] /\ a \notin Rechecks)) BY DEF Candidate
  <2>2. incident[a] \in Nat BY <1>1, Budgets DEF RecoveryTypeOK
  <2> QED BY <1>1, <2>1, <2>2 DEF OpenIsKnown
<1>4. sweep' \in Sweeps /\ sweep'.at = "survey" /\ sweep'.agent = a
      /\ (sweep'.key # None => sweep'.key \in Incidents /\ sweep'.key <= incident[a])
      BY <1>2, <1>3 DEF RecoveryTypeOK, Sweeps
<1>5. SweepIsOfIncident' BY <1>1, <1>2, <1>4 DEF SweepIsOfIncident
<1> QED BY <1>2, <1>4, <1>5, RowsKept DEF RecoveryTypeOK

\* survey: what it drops keeps its count.
LEMMA DroppedKeeps ==
    ASSUME RecoveryTypeOK, NEW a \in Agents
    PROVE  /\ Dropped(a) \in [Incidents -> IncidentRows \cup {None}]
           /\ \A i \in Incidents :
                 /\ (Dropped(a)[i] = None) <=> (entry[a][i] = None)
                 /\ entry[a][i] # None => Dropped(a)[i].attempts = entry[a][i].attempts
                 /\ i = sweep.key => Dropped(a)[i] = entry[a][i]
<1> SUFFICES ASSUME NEW i \in Incidents
             PROVE  /\ Dropped(a)[i] \in IncidentRows \cup {None}
                    /\ (Dropped(a)[i] = None) <=> (entry[a][i] = None)
                    /\ entry[a][i] # None => Dropped(a)[i].attempts = entry[a][i].attempts
                    /\ i = sweep.key => Dropped(a)[i] = entry[a][i]
    BY DEF Dropped
<1>1. entry[a][i] \in IncidentRows \cup {None} BY DEF RecoveryTypeOK
<1>2. Dropped(a)[i] = IF i = sweep.key \/ entry[a][i] = None THEN entry[a][i]
                      ELSE FinishedAttempt(entry[a][i], entry[a][i].attempts, "final")
      BY DEF Dropped
<1> QED BY <1>1, <1>2, FinishKeeps

LEMMA SurveyDefersStep ==
    ASSUME RecoveryInv, Survey,
           ~(sweep.key # None /\ CanBegin(entry[sweep.agent][sweep.key]) /\ ~Deferred(sweep.agent))
    PROVE  RecoveryInv'
<1> DEFINE a == sweep.agent
<1> USE DEF RecoveryInv
<1>1. a \in Agents BY DEF SweepIsOfIncident, Survey
<1>2. /\ entry' = [entry EXCEPT ![a] = Dropped(a)]
      /\ sweep' = [sweep EXCEPT !.at = "next", !.agent = None, !.key = None]
      /\ UNCHANGED <<problem, incident, active, calls>>
      BY DEF Survey
<1>3. sweep' \in Sweeps /\ sweep'.at = "next" BY <1>2 DEF RecoveryTypeOK, Sweeps
<1> HIDE DEF a
<1>4. entry' \in [Agents -> [Incidents -> IncidentRows \cup {None}]]
      BY <1>1, <1>2, DroppedKeeps DEF RecoveryTypeOK
<1>5. \A b \in Agents, i \in Incidents : entry'[b][i] = IF b = a THEN Dropped(a)[i] ELSE entry[b][i]
      BY <1>1, <1>2 DEF RecoveryTypeOK
<1>6. \A b \in Agents, i \in Incidents :
          /\ (entry'[b][i] = None) <=> (entry[b][i] = None)
          /\ entry[b][i] # None => entry'[b][i].attempts = entry[b][i].attempts
      BY <1>1, <1>5, DroppedKeeps
<1>7. SweepIsOfIncident' BY <1>3 DEF SweepIsOfIncident
<1> QED BY <1>2, <1>3, <1>4, <1>6, <1>7, RowsKept DEF RecoveryTypeOK

\* begin counts the attempt within the budget (240).
LEMMA BegunCounts ==
    ASSUME NEW r \in IncidentRows \cup {None}, CanBegin(r)
    PROVE  /\ Begun(r) \in IncidentRows /\ Begun(r) # None
           /\ Begun(r).attempts = IF r = None THEN 1 ELSE r.attempts + 1
<1> DEFINE n == IF r = None THEN 1 ELSE r.attempts + 1
<1>1. n \in 0 .. Attempts
  <2>1. CASE r = None BY <2>1, Budgets
  <2>2. CASE r # None
    <3>1. r.attempts \in 0 .. Attempts /\ r.attempts < Attempts BY <2>2 DEF CanBegin, IncidentRows
    <3> QED BY <2>2, <3>1, Budgets
  <2> QED BY <2>1, <2>2
<1>2. Begun(r) = [state |-> "retrying", attempts |-> n, due |-> FALSE] BY DEF Begun
<1> HIDE DEF n
<1>3. Begun(r) \in IncidentRows /\ Begun(r).attempts = n BY <1>1, <1>2 DEF IncidentRows
<1> QED BY <1>3, Budgets DEF n

LEMMA SurveyBeginsStep ==
    ASSUME RecoveryInv, Survey,
           sweep.key # None, CanBegin(entry[sweep.agent][sweep.key]), ~Deferred(sweep.agent)
    PROVE  RecoveryInv'
<1> DEFINE a == sweep.agent
           k == sweep.key
           r == entry[a][k]
<1> USE DEF RecoveryInv
<1>1. a \in Agents /\ k \in Incidents /\ k <= incident[a] BY DEF SweepIsOfIncident, Survey
<1>2. /\ entry' = [entry EXCEPT ![a] = [Dropped(a) EXCEPT ![k] = Begun(@)]]
      /\ calls' = [calls EXCEPT ![a][k] = @ + 1]
      /\ sweep' = [sweep EXCEPT !.at = "try", !.attempt = Begun(r).attempts,
                                !.sent = @ + 1, !.spent = @ \/ a \notin Rechecks]
      /\ UNCHANGED <<problem, incident, active>>
      BY DEF Survey
<1>3. r \in IncidentRows \cup {None} BY <1>1 DEF RecoveryTypeOK
<1>4. CanBegin(r) OBVIOUS
<1> HIDE DEF r
<1>5. /\ Begun(r) \in IncidentRows /\ Begun(r) # None
      /\ Begun(r).attempts = IF r = None THEN 1 ELSE r.attempts + 1
      BY <1>3, <1>4, BegunCounts
<1>6. Begun(r).attempts \in Nat BY <1>5, Budgets DEF IncidentRows
<1>7. sweep' \in Sweeps /\ sweep'.at = "try" /\ sweep'.agent = a /\ sweep'.key = k
  <2> DEFINE n == sweep.sent + 1
             t == Begun(r).attempts
             u == sweep.spent \/ a \notin Rechecks
  <2>1. n \in Nat /\ t \in Nat BY <1>6 DEF RecoveryTypeOK, Sweeps
  <2>2. u \in BOOLEAN OBVIOUS
  <2>3. sweep' = [sweep EXCEPT !.at = "try", !.attempt = t, !.sent = n, !.spent = u] BY <1>2
  <2>4. sweep \in Sweeps BY DEF RecoveryTypeOK
  <2> HIDE DEF n, t, u
  <2>5. [sweep EXCEPT !.at = "try", !.attempt = t, !.sent = n, !.spent = u] \in Sweeps
        BY <2>1, <2>2, <2>4 DEF Sweeps
  <2>6. /\ [sweep EXCEPT !.at = "try", !.attempt = t, !.sent = n, !.spent = u].at = "try"
        /\ [sweep EXCEPT !.at = "try", !.attempt = t, !.sent = n, !.spent = u].agent = sweep.agent
        /\ [sweep EXCEPT !.at = "try", !.attempt = t, !.sent = n, !.spent = u].key = sweep.key
        BY <2>4 DEF Sweeps
  <2> QED BY <2>3, <2>5, <2>6
<1> HIDE DEF a, k
<1>8. /\ Dropped(a) \in [Incidents -> IncidentRows \cup {None}] /\ Dropped(a)[k] = r
      BY <1>1, DroppedKeeps DEF r, k
<1>9. /\ entry' \in [Agents -> [Incidents -> IncidentRows \cup {None}]]
      /\ \A b \in Agents, i \in Incidents :
            entry'[b][i] = IF b = a THEN IF i = k THEN Begun(r) ELSE Dropped(a)[i] ELSE entry[b][i]
      BY <1>1, <1>2, <1>5, <1>8 DEF RecoveryTypeOK
<1>10. /\ calls' \in [Agents -> [Incidents -> Nat]]
       /\ \A b \in Agents, i \in Incidents :
             calls'[b][i] = IF b = a /\ i = k THEN calls[a][k] + 1 ELSE calls[b][i]
      BY <1>1, <1>2 DEF RecoveryTypeOK
<1>11. RecoveryTypeOK' BY <1>2, <1>7, <1>9, <1>10 DEF RecoveryTypeOK
<1>12. RowsCount'
  <2> SUFFICES ASSUME NEW b \in Agents, NEW i \in Incidents
               PROVE  calls'[b][i] <= IF entry'[b][i] = None THEN 0 ELSE entry'[b][i].attempts
      BY DEF RowsCount
  <2>0. calls[b][i] <= IF entry[b][i] = None THEN 0 ELSE entry[b][i].attempts BY DEF RowsCount
  <2>1. CASE b = a /\ i = k
    <3>1. calls[a][k] <= IF r = None THEN 0 ELSE r.attempts BY <2>0, <2>1 DEF r
    <3>2. calls[a][k] \in Nat /\ (r # None => r.attempts \in Nat)
          BY <1>1, <1>3, Budgets DEF RecoveryTypeOK, IncidentRows
    <3>3. calls[a][k] + 1 <= Begun(r).attempts BY <3>1, <3>2, <1>5
    <3> QED BY <2>1, <3>3, <1>5, <1>9, <1>10
  <2>2. CASE b = a /\ i # k
    <3>1. entry'[b][i] = Dropped(a)[i] /\ calls'[b][i] = calls[b][i] BY <2>2, <1>9, <1>10
    <3> QED BY <2>0, <2>2, <3>1, <1>1, DroppedKeeps
  <2>3. CASE b # a BY <2>0, <2>3, <1>9, <1>10
  <2> QED BY <2>1, <2>2, <2>3
<1>13. FutureIsEmpty'
  <2> SUFFICES ASSUME NEW b \in Agents, NEW i \in Incidents, i > incident[b] PROVE entry'[b][i] = None
      BY <1>2 DEF FutureIsEmpty
  <2>1. entry[b][i] = None BY DEF FutureIsEmpty
  <2>2. CASE b = a
    <3>1. incident[a] \in Nat /\ i \in Nat /\ k \in Nat BY <1>1, Budgets DEF RecoveryTypeOK, Incidents
    <3>2. i # k BY <2>2, <3>1, <1>1
    <3> QED BY <2>1, <2>2, <3>2, <1>1, <1>9, DroppedKeeps
  <2>3. CASE b # a BY <2>1, <2>3, <1>9
  <2> QED BY <2>2, <2>3
<1>14. OpenIsKnown'
  <2>1. \A b \in Agents, i \in Incidents : entry[b][i] # None => entry'[b][i] # None
        BY <1>1, <1>5, <1>9, DroppedKeeps
  <2> QED BY <1>2, <2>1 DEF OpenIsKnown
<1>15. SweepIsOfIncident' BY <1>1, <1>2, <1>7 DEF SweepIsOfIncident
<1> QED BY <1>11, <1>12, <1>13, <1>14, <1>15

LEMMA AnswersStep == ASSUME RecoveryInv, NEW result, AttemptAnswers(result) PROVE RecoveryInv'
<1> DEFINE a == sweep.agent
           k == sweep.key
           r == entry[a][k]
<1> USE DEF RecoveryInv
<1>1. a \in Agents /\ k \in Incidents BY DEF SweepIsOfIncident, AttemptAnswers
<1>2. /\ entry' = [entry EXCEPT ![a][k] = FinishedAttempt(@, sweep.attempt, result)]
      /\ problem' = [problem EXCEPT ![a] = @ /\ result # "confirmed"]
      /\ active' = [active EXCEPT ![a] = @ /\ ~(result = "confirmed" /\ incident[a] = k /\ IsIn(entry'[a][k], "resolved"))]
      /\ sweep' = [sweep EXCEPT !.at = "next", !.agent = None, !.key = None, !.attempt = 0]
      /\ UNCHANGED <<incident, calls>>
      BY DEF AttemptAnswers
<1>3. sweep' \in Sweeps /\ sweep'.at = "next" BY <1>2 DEF RecoveryTypeOK, Sweeps
<1> HIDE DEF a, k
<1>4. r \in IncidentRows \cup {None} BY <1>1 DEF RecoveryTypeOK
<1> DEFINE f == FinishedAttempt(r, sweep.attempt, result)
<1>5. entry' = [entry EXCEPT ![a][k] = f] BY <1>2
<1> HIDE DEF r
<1>6. f \in IncidentRows \cup {None} /\ ((f = None) <=> (r = None)) /\ (r # None => f.attempts = r.attempts)
      BY <1>4, FinishKeeps
<1> HIDE DEF f
<1>7. /\ entry' \in [Agents -> [Incidents -> IncidentRows \cup {None}]]
      /\ \A b \in Agents, i \in Incidents : entry'[b][i] = IF b = a /\ i = k THEN f ELSE entry[b][i]
      BY <1>1, <1>5, <1>6 DEF RecoveryTypeOK
<1>8. \A b \in Agents, i \in Incidents :
          /\ (entry'[b][i] = None) <=> (entry[b][i] = None)
          /\ entry[b][i] # None => entry'[b][i].attempts = entry[b][i].attempts
      BY <1>6, <1>7 DEF r
<1>9. /\ problem' \in [Agents -> BOOLEAN] /\ active' \in [Agents -> BOOLEAN]
      /\ \A b \in Agents : (problem'[b] => problem[b]) /\ (active'[b] => active[b])
      BY <1>1, <1>2, Zenon DEF RecoveryTypeOK
<1>10. SweepIsOfIncident' BY <1>3 DEF SweepIsOfIncident
<1> QED BY <1>2, <1>3, <1>7, <1>8, <1>9, <1>10, RowsKept

--------------------------------------------------------------------------
(* The theorem *)

LEMMA RecoveryStart == ASSUME RecoveryInit PROVE RecoveryInv
<1> USE DEF RecoveryInit
<1>1. RecoveryTypeOK BY Budgets, NoSweepTypes DEF RecoveryTypeOK
<1>2. RowsCount BY DEF RowsCount
<1>3. FutureIsEmpty BY DEF FutureIsEmpty
<1>4. OpenIsKnown BY DEF OpenIsKnown
<1>5. SweepIsOfIncident BY NoSweepTypes DEF SweepIsOfIncident
<1> QED BY <1>1, <1>2, <1>3, <1>4, <1>5 DEF RecoveryInv

\* No incident is tried more often than its budget (AUTOMATIC_RECOVERY_ATTEMPTS),
\* over any number of ends of the bridge, late answers and inspections.
THEOREM BudgetKept == RecoverySpec => []BudgetIsKept
<1>1. RecoveryInit => RecoveryInv BY RecoveryStart
<1>2. RecoveryInv /\ [RecoveryNext]_recoveryVars => RecoveryInv'
  <2> SUFFICES ASSUME RecoveryInv, [RecoveryNext]_recoveryVars PROVE RecoveryInv'
      OBVIOUS
  <2>1. ASSUME NEW a \in Agents, Arises(a) PROVE RecoveryInv' BY <2>1, ArisesStep
  <2>2. ASSUME NEW a \in Agents, Heals(a) PROVE RecoveryInv' BY <2>2, HealsStep
  <2>3. ASSUME NEW a \in Agents, ObserveRecheck(a) PROVE RecoveryInv' BY <2>3, OpensStep, IncidentClosesStep
  <2>4. ASSUME NEW a \in Agents, Schedule(a) PROVE RecoveryInv'
    <3>1. UNCHANGED <<problem, incident, active, entry, sweep, calls>> BY <2>4 DEF Schedule
    <3> QED BY <3>1 DEF RecoveryInv, RecoveryTypeOK, RowsCount, FutureIsEmpty, OpenIsKnown, SweepIsOfIncident
  <2>5. ASSUME NEW a \in Agents, NEW i \in Incidents, BackoffEnds(a, i) PROVE RecoveryInv' BY <2>5, BackoffStep
  <2>6. ASSUME NEW x \in Agents \cup {All}, AskedSweeps(x) PROVE RecoveryInv'
    <3>1. CASE Starts(x) BY <2>6, <3>1, StartsStep DEF AskedSweeps
    <3>2. CASE UNCHANGED <<problem, incident, active, entry, sweep, calls>>
          BY <3>2 DEF RecoveryInv, RecoveryTypeOK, RowsCount, FutureIsEmpty, OpenIsKnown, SweepIsOfIncident
    <3> QED BY <2>6, <3>1, <3>2 DEF AskedSweeps
  <2>7. CASE TimerSweeps BY <2>7, StartsStep DEF TimerSweeps
  <2>8. CASE NextDue \/ NextOfPage BY <2>8, NextDueStep, NextOfPageStep
  <2>9. CASE ReadCandidates \/ CandidatesFail BY <2>9, DiscoversStep, ReadStep, LookupFailsStep
  <2>10. CASE Survey BY <2>10, SurveyDefersStep, SurveyBeginsStep
  <2>11. ASSUME NEW result \in Answers3, AttemptAnswers(result) PROVE RecoveryInv' BY <2>11, AnswersStep
  <2>12. CASE RecoveryRestarts BY <2>12, RestartStep
  <2>13. CASE UNCHANGED recoveryVars
         BY <2>13 DEF recoveryVars, RecoveryInv, RecoveryTypeOK, RowsCount, FutureIsEmpty, OpenIsKnown, SweepIsOfIncident
  <2> QED BY <2>1, <2>2, <2>3, <2>4, <2>5, <2>6, <2>7, <2>8, <2>9, <2>10, <2>11, <2>12, <2>13 DEF RecoveryNext
<1>3. RecoveryInv => BudgetIsKept
  <2> SUFFICES ASSUME RecoveryInv, NEW a \in Agents, NEW i \in Incidents PROVE calls[a][i] <= Attempts
      BY DEF BudgetIsKept
  <2>1. calls[a][i] <= IF entry[a][i] = None THEN 0 ELSE entry[a][i].attempts BY DEF RecoveryInv, RowsCount
  <2>2. calls[a][i] \in Nat /\ entry[a][i] \in IncidentRows \cup {None} BY DEF RecoveryInv, RecoveryTypeOK
  <2>3. entry[a][i] # None => entry[a][i].attempts \in 0 .. Attempts BY <2>2 DEF IncidentRows
  <2> QED BY <2>1, <2>2, <2>3, Budgets
<1> QED BY <1>1, <1>2, <1>3, PTL DEF RecoverySpec

==============================================================================
