------------------------- MODULE ThreadConnections -------------------------
(* The release of idle conversations (threadConnections.ts) by the pool of    *)
(* App Server workers (appServerUpstream.ts), here one worker.  A row says    *)
(* who holds the conversation; the release is an await of many steps, during  *)
(* which Jobs are admitted, hand-offs are asked for and taken back, the       *)
(* worker unloads conversations or dies, and the bridge restarts.             *)
EXTENDS Naturals, FiniteSets, Absence

CONSTANTS
    Threads,
    Persistent,     \* the conversations stored durably; the others stay loaded
    MaxWorks,       \* bound: Jobs
    MaxHandoffs,    \* bound: hand-offs asked for
    MaxBreaks,      \* bound: worker exits and bridge restarts
    MaxFailedStarts \* bound: turns refused after their conversation was resumed

Pids == 1 .. MaxBreaks + Cardinality(Threads) + 1
\* The rows of thread_connections.
ConnectionRows ==
    [phase : {"connected", "waiting", "releasing", "unsubscribed", "released", "blocked"}, handoff : BOOLEAN,
     finished : {"never", "recent", "idle"}, pid : Pids]

ASSUME ThreadsAssumption ==
    /\ None \notin ConnectionRows \cup Pids
    /\ IsFiniteSet(Threads) /\ Persistent \subseteq Threads
    /\ {MaxWorks, MaxHandoffs, MaxBreaks, MaxFailedStarts} \subseteq Nat

VARIABLES
    conn,       \* thread_connections: phase, handoffRequested, lastFinishedAt, workerPid
    jobOf,      \* the unfinished Job of a conversation: none, admitted, called, running
    worker,     \* the live worker's process, or None
    loaded,     \* what the worker has loaded
    subscribed, \* ... and what the bridge subscribes to
    route,      \* threadWorkers
    evidence,   \* releaseEvidence
    sweeping,   \* the sweep that goes on: its candidates, the one it releases, where it is
    used        \* how much of the bounds is used up

threadVars == <<conn, jobOf, worker, loaded, subscribed, route, evidence, sweeping, used>>

NoRelease == [at |-> "off", left |-> {}, eligible |-> {}, thread |-> None, same |-> FALSE, list |-> {}]

ThreadsInit ==
    /\ conn = [t \in Threads |-> None] /\ jobOf = [t \in Threads |-> "none"]
    /\ worker = None /\ loaded = {} /\ subscribed = {} /\ route = {} /\ evidence = {}
    /\ sweeping = NoRelease
    /\ used = [jobs |-> 0, handoffs |-> 0, breaks |-> 0, failed |-> 0, pids |-> 0]

--------------------------------------------------------------------------
(* ThreadConnectionStore. *)

\* A revision is only ever compared with the one a release began with.
Bumped(ts) == [sweeping EXCEPT !.same = @ /\ sweeping.thread \notin ts]

\* hasUnfinishedWork, and eligible() of the controller.
Unfinished(t) == jobOf[t] # "none"
Eligible(t) ==
    /\ conn[t] # None /\ t \in Persistent /\ ~Unfinished(t)
    /\ conn[t].handoff \/ conn[t].finished = "idle"

AssertAdmission(t) ==
    conn[t] # None => conn[t].phase # "releasing" /\ (conn[t].handoff => conn[t].phase = "released")

\* A new Job takes the connection back, in the transaction that admits it.
AdmitWork(t) ==
    /\ jobOf[t] = "none" /\ AssertAdmission(t) /\ used.jobs < MaxWorks
    /\ used' = [used EXCEPT !.jobs = @ + 1]
    /\ jobOf' = [jobOf EXCEPT ![t] = "admitted"]
    /\ conn' = [conn EXCEPT ![t] = IF @ = None THEN None ELSE [@ EXCEPT !.phase = "connected", !.handoff = FALSE]]
    /\ sweeping' = Bumped({t})
    /\ UNCHANGED <<worker, loaded, subscribed, route, evidence>>

RequestHandoff(t) ==
    /\ conn[t] # None /\ ~conn[t].handoff /\ used.handoffs < MaxHandoffs
    /\ used' = [used EXCEPT !.handoffs = @ + 1]
    /\ conn' = [conn EXCEPT ![t].phase = IF @ = "released" THEN @ ELSE "waiting", ![t].handoff = TRUE]
    /\ sweeping' = Bumped({t})
    /\ UNCHANGED <<jobOf, worker, loaded, subscribed, route, evidence>>

CancelHandoff(t) ==
    /\ conn[t] # None /\ conn[t].handoff /\ conn[t].phase # "releasing"
    /\ conn' = [conn EXCEPT ![t].phase = IF @ \in {"unsubscribed", "released"} THEN @ ELSE "connected",
                            ![t].handoff = FALSE]
    /\ sweeping' = Bumped({t})
    /\ UNCHANGED <<jobOf, worker, loaded, subscribed, route, evidence, used>>

\* The agent has moved on to another conversation.
SupersedeHandoff(t) ==
    /\ conn[t] # None /\ conn[t].handoff /\ conn[t].phase # "releasing"
    /\ conn' = [conn EXCEPT ![t].phase = "blocked", ![t].handoff = FALSE]
    /\ sweeping' = Bumped({t})
    /\ UNCHANGED <<jobOf, worker, loaded, subscribed, route, evidence, used>>

GrowsIdle(t) ==
    /\ conn[t] # None /\ conn[t].finished = "recent"
    /\ conn' = [conn EXCEPT ![t].finished = "idle"]
    /\ UNCHANGED <<jobOf, worker, loaded, subscribed, route, evidence, sweeping, used>>

--------------------------------------------------------------------------
(* The pool.  A release holds worker.maintenance; calls wait for it. *)

Maintenance == sweeping.at \in {"checking", "unsubscribing", "listing", "retiring", "closing"}
ActiveCalls == Cardinality({t \in Threads : jobOf[t] \in {"called", "running"}})

\* callTool: a call without a worker of its own finds no free one during maintenance.
CallTool(t) ==
    /\ jobOf[t] = "admitted"
    /\ jobOf' = [jobOf EXCEPT ![t] = IF Maintenance /\ t \notin route THEN "none" ELSE "called"]
    /\ UNCHANGED <<conn, worker, loaded, subscribed, route, evidence, sweeping, used>>

\* connectionFor: the live worker, or a new generation.
Connected(p) == IF worker # None THEN p = worker /\ used' = used
                ELSE p = used.pids + 1 /\ used' = [used EXCEPT !.pids = p]

\* The conversation is started or resumed, and its turn is accepted: it is
\* registered, routed to this worker, and what was known of a release is void.
TurnBegins(t, p) ==
    /\ jobOf[t] = "called" /\ ~Maintenance /\ Connected(p) /\ worker' = p
    /\ jobOf' = [jobOf EXCEPT ![t] = "running"]
    /\ loaded' = loaded \cup {t} /\ subscribed' = subscribed \cup {t}
    /\ route' = route \cup {t} /\ evidence' = evidence \ {t}
    /\ conn' = [conn EXCEPT ![t] =
                  IF @ = None THEN [phase |-> "connected", handoff |-> FALSE, finished |-> "never", pid |-> p]
                  ELSE [@ EXCEPT !.pid = p]]
    /\ UNCHANGED sweeping

\* The conversation is resumed, and its turn is refused: nothing but the
\* worker knows that it is loaded.
TurnRefused(t, p) ==
    /\ jobOf[t] = "called" /\ conn[t] # None /\ ~Maintenance /\ used.failed < MaxFailedStarts
    /\ IF worker # None THEN p = worker ELSE p = used.pids + 1
    /\ used' = [used EXCEPT !.failed = @ + 1, !.pids = IF worker = None THEN p ELSE @]
    /\ worker' = p /\ loaded' = loaded \cup {t} /\ subscribed' = subscribed \cup {t}
    /\ jobOf' = [jobOf EXCEPT ![t] = "none"]
    /\ UNCHANGED <<conn, route, evidence, sweeping>>

\* Another application holds the conversation: it is not resumed, and the end
\* of the Job leaves that on its row.
ExternallyOwned(t) ==
    /\ jobOf[t] = "called" /\ conn[t] # None /\ ~Maintenance
    /\ jobOf' = [jobOf EXCEPT ![t] = "none"] /\ conn' = [conn EXCEPT ![t].phase = "blocked"]
    /\ sweeping' = Bumped({t})
    /\ UNCHANGED <<worker, loaded, subscribed, route, evidence, used>>

FinishedWork(t) == IF conn[t] = None THEN None ELSE [conn[t] EXCEPT !.finished = "recent"]

WorkEnds(t) ==
    /\ jobOf[t] = "running"
    /\ jobOf' = [jobOf EXCEPT ![t] = "none"] /\ conn' = [conn EXCEPT ![t] = FinishedWork(t)]
    /\ sweeping' = Bumped({t})
    /\ UNCHANGED <<worker, loaded, subscribed, route, evidence, used>>

\* The App Server unloads a conversation nobody subscribes to, and says so:
\* onThreadClosed.
ThreadClosed(t) ==
    /\ t \in loaded \ subscribed /\ jobOf[t] # "running"
    /\ loaded' = loaded \ {t} /\ route' = route \ {t} /\ evidence' = evidence \cup {t}
    /\ UNCHANGED <<conn, jobOf, worker, subscribed, sweeping, used>>

\* onWorkerExit, forgetWorkerThreads: the turns of the worker end with it.
Exited(ending) ==
    /\ worker' = None /\ loaded' = {} /\ subscribed' = {}
    /\ route' = {} /\ evidence' = evidence \cup route
    /\ conn' = [t \in Threads |-> IF t \in ending THEN FinishedWork(t) ELSE conn[t]]
    /\ jobOf' = [t \in Threads |-> IF t \in ending THEN "none" ELSE jobOf[t]]

WorkerExits ==
    LET ending == {t \in Threads : jobOf[t] = "running"} IN
    /\ worker # None /\ used.breaks < MaxBreaks /\ used' = [used EXCEPT !.breaks = @ + 1]
    /\ Exited(ending)
    /\ sweeping' = Bumped(ending)

--------------------------------------------------------------------------
(* runSweep and releaseThreadConnection. *)

SweepCandidates == {t \in Threads : conn[t] # None /\ conn[t].phase # "released" /\
                 (conn[t].handoff \/ (t \in Persistent /\ conn[t].finished = "idle"))}

SweepBegins ==
    /\ sweeping.at = "off" /\ SweepCandidates # {}
    /\ sweeping' = [NoRelease EXCEPT !.at = "next", !.left = SweepCandidates, !.eligible = SweepCandidates]
    /\ UNCHANGED <<conn, jobOf, worker, loaded, subscribed, route, evidence, used>>

\* The candidate's row is read again; the release is on record before it begins.
SweepTakes(t) ==
    /\ sweeping.at = "next" /\ t \in sweeping.left
    /\ LET rest == [sweeping EXCEPT !.left = @ \ {t}, !.thread = t, !.same = TRUE] IN
       \/ /\ Eligible(t) /\ conn[t].phase # "released"
          /\ conn' = [conn EXCEPT ![t].phase = "releasing"]
          /\ sweeping' = [rest EXCEPT !.at = "asked"]
       \/ /\ conn[t].phase # "released" /\ (t \notin Persistent \/ Unfinished(t))
          /\ conn' = [conn EXCEPT ![t].phase = "blocked"]
          /\ sweeping' = [rest EXCEPT !.thread = None]
       \/ /\ conn[t].phase = "released" \/ (t \in Persistent /\ ~Unfinished(t) /\ ~Eligible(t))
          /\ sweeping' = [rest EXCEPT !.thread = None] /\ UNCHANGED conn
    /\ UNCHANGED <<jobOf, worker, loaded, subscribed, route, evidence, used>>

SweepEnds ==
    /\ sweeping.at = "next" /\ sweeping.left = {} /\ sweeping' = NoRelease
    /\ UNCHANGED <<conn, jobOf, worker, loaded, subscribed, route, evidence, used>>

AppliesAnyway(same) == TRUE
\* update() with the revision the release began with.
Applies(same) == same

\* The answer reaches the row of the candidate, and those of its peers that
\* may still be released.
Answer(phase, closed) ==
    /\ conn' = [t \in Threads |->
          CASE t = sweeping.thread -> IF Applies(sweeping.same) THEN [conn[t] EXCEPT !.phase = phase] ELSE conn[t]
            [] t \in closed \ {sweeping.thread} /\ Eligible(t) -> [conn[t] EXCEPT !.phase = "released"]
            [] OTHER -> conn[t]]
    /\ sweeping' = [sweeping EXCEPT !.at = "next", !.thread = None, !.list = {}]

\* A conversation without a live worker: what is known of its last one.
Gone(t) == worker = None \/ conn[t].pid # worker

ReleaseUnrouted ==
    LET t == sweeping.thread IN
    /\ sweeping.at = "asked" /\ (t \notin route \/ worker = None)
    /\ Answer(IF t \in evidence \/ Gone(t) THEN "released" ELSE "blocked", {})
    /\ UNCHANGED <<jobOf, worker, loaded, subscribed, route, evidence, used>>

Goes(at) == sweeping' = [sweeping EXCEPT !.at = at] /\ UNCHANGED conn

\* Under the maintenance lock: canRelease, releaseSafety and canRelease again.
ReleaseChecks(safe) ==
    /\ \/ sweeping.at = "asked" /\ sweeping.thread \in route /\ worker # None /\ safe
          /\ IF Eligible(sweeping.thread) THEN Goes("checking") ELSE Answer("blocked", {})
       \/ sweeping.at = "checking"
          /\ IF worker # None /\ safe /\ Eligible(sweeping.thread) THEN Goes("unsubscribing") ELSE Answer("blocked", {})
    /\ UNCHANGED <<jobOf, worker, loaded, subscribed, route, evidence, used>>

\* thread/unsubscribe: its acknowledgement proves nothing unless the
\* conversation is not loaded.
ReleaseUnsubscribes ==
    LET t == sweeping.thread IN
    /\ sweeping.at = "unsubscribing"
    /\ IF worker = None THEN Answer("blocked", {}) /\ UNCHANGED <<subscribed, route, evidence>>
       ELSE /\ subscribed' = subscribed \ {t}
            /\ IF t \in loaded THEN Goes("listing") /\ UNCHANGED <<route, evidence>>
               ELSE Answer("released", {}) /\ route' = route \ {t} /\ evidence' = evidence \cup {t}
    /\ UNCHANGED <<jobOf, worker, loaded, used>>

RetiresAnyway(ids) == ids \subseteq sweeping.eligible
\* Nobody calls the worker, and every conversation it has loaded may be released.
Retires(ids) == ActiveCalls = 0 /\ ids \subseteq sweeping.eligible /\ \A u \in ids : Eligible(u)

\* thread/loaded/list: unloaded by now, or the whole worker can be retired, or
\* the App Server unloads it in its own time.
ReleaseLists ==
    LET t == sweeping.thread IN
    /\ sweeping.at = "listing"
    /\ CASE worker = None -> Answer("blocked", {}) /\ UNCHANGED <<route, evidence>>
         [] worker # None /\ t \notin loaded ->
              Answer("released", {}) /\ route' = route \ {t} /\ evidence' = evidence \cup {t}
         [] OTHER ->
              /\ IF Retires(loaded)
                 THEN sweeping' = [sweeping EXCEPT !.at = "retiring", !.list = loaded] /\ UNCHANGED conn
                 ELSE Answer("unsubscribed", {})
              /\ UNCHANGED <<route, evidence>>
    /\ UNCHANGED <<jobOf, worker, loaded, subscribed, used>>

\* The last checks before the worker is closed.
ReleaseRetires(safe) ==
    /\ sweeping.at = "retiring"
    /\ CASE worker = None -> Answer("blocked", {}) /\ UNCHANGED subscribed
         [] worker # None /\ safe /\ Retires(sweeping.list) -> Goes("closing") /\ subscribed' = subscribed \ sweeping.list
         [] OTHER -> Answer("unsubscribed", {}) /\ UNCHANGED subscribed
    /\ UNCHANGED <<jobOf, worker, loaded, route, evidence, used>>

\* The worker has exited, with everything it had loaded.
ReleaseCloses ==
    /\ sweeping.at = "closing"
    /\ worker' = None /\ loaded' = {} /\ subscribed' = {} /\ route' = {}
    /\ evidence' = evidence \cup route \cup sweeping.list
    /\ Answer("released", sweeping.list)
    /\ UNCHANGED <<jobOf, used>>

\* The bridge ends, with its pool and what that knew; a release it was waiting
\* for is only on record.
BridgeRestarts ==
    /\ used.breaks < MaxBreaks /\ used' = [used EXCEPT !.breaks = @ + 1]
    /\ worker' = None /\ loaded' = {} /\ subscribed' = {} /\ route' = {} /\ evidence' = {}
    /\ jobOf' = [t \in Threads |-> "none"] /\ sweeping' = NoRelease
    /\ UNCHANGED conn

SweepSteps ==
    \/ SweepBegins \/ SweepEnds \/ (\E t \in Threads : SweepTakes(t))
    \/ ReleaseUnrouted \/ ReleaseChecks(TRUE) \/ ReleaseChecks(FALSE)
    \/ ReleaseUnsubscribes \/ ReleaseLists \/ ReleaseRetires(TRUE) \/ ReleaseRetires(FALSE) \/ ReleaseCloses

ThreadsNext ==
    \/ SweepSteps \/ WorkerExits \/ BridgeRestarts
    \/ \E t \in Threads :
          \/ AdmitWork(t) \/ RequestHandoff(t) \/ CancelHandoff(t) \/ SupersedeHandoff(t)
          \/ GrowsIdle(t) \/ CallTool(t) \/ ExternallyOwned(t) \/ WorkEnds(t) \/ ThreadClosed(t)
          \/ \E p \in Pids : TurnBegins(t, p) \/ TurnRefused(t, p)

ThreadsSpec == ThreadsInit /\ [][ThreadsNext]_threadVars
--------------------------------------------------------------------------
\* A conversation that is on record as released belongs to no worker of the
\* bridge: none is asked for it, and no turn of it runs.  The answer of a
\* release is applied after an await (threadConnections.ts:346).
ReleasedIsUnrouted ==
    \A t \in Threads : conn[t] # None /\ conn[t].phase = "released" => t \notin route /\ jobOf[t] # "running"

\* A conversation that is on record as released is loaded by no worker of the
\* bridge, so that another application may open it (docs/thread-lifecycle.md:21).
ReleasedIsUnloaded ==
    \A t \in Threads : conn[t] # None /\ conn[t].phase = "released" => t \notin loaded

\* A worker is closed only when nobody uses it: no turn ends because an idle
\* conversation was released (releaseThreadConnection rechecks before close).
ReleaseEndsNoTurn == sweeping.at = "closing" => \A t \in Threads : jobOf[t] # "running"
=============================================================================
