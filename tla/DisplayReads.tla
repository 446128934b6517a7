---------------------------- MODULE DisplayReads ----------------------------
(***************************************************************************)
(* The pool of display reads of src/src/displayReadPool.ts, as the weekly  *)
(* usage of tools.ts uses it: a view waits a short time for a shared read, *)
(* then shows what it has and is told when more is there.  An account that *)
(* is replaced invalidates the reads of the one before, whose place stays  *)
(* taken until they settle.                                                *)
(***************************************************************************)
EXTENDS Naturals, FiniteSets, Absence

CONSTANTS
    Revisions,    \* accountRevision(): digests of the account's files; one may come back
    Views,        \* dashboards and cards
    Concurrency   \* places of the pool

ASSUME DisplayAssumption == Concurrency \in Nat \ {0} /\ None \notin Revisions

VARIABLES
    revision,   \* the account in use
    reads,      \* revision -> None or [invalidated, deferred]
    waiting,    \* waitingForCapacity
    cache,      \* cardUsageCaches: None or [revision, fresh]
    completion, \* cardUsageCompletions: revision of a read that brought no value
    views       \* view -> [state, revision, shown, stays: its account is still in use]

displayVars == <<revision, reads, waiting, cache, completion, views>>

Open == {k \in Revisions : reads[k] # None}

DisplayInit ==
    /\ revision \in Revisions
    /\ reads = [k \in Revisions |-> None]
    /\ waiting = FALSE /\ cache = None /\ completion = None
    /\ views = [v \in Views |-> [state |-> "idle", revision |-> None, shown |-> None, stays |-> TRUE]]

\* The account of a fallback value: the cached one, while it is this account's.
FallbackOld == IF cache # None THEN cache.revision ELSE None
Fallback == IF cache # None /\ cache.revision = revision THEN cache.revision ELSE None

Shows(v, state, of) == views' = [views EXCEPT ![v] = [state |-> state, revision |-> revision, shown |-> of, stays |-> TRUE]]

-----------------------------------------------------------------------------
\* invalidate(existing # key), then start(key): the reads after, with the flag.
Invalidated == [k \in Revisions |->
    IF reads[k] # None /\ k # revision THEN [reads[k] EXCEPT !.invalidated = TRUE] ELSE reads[k]]
Joins == reads[revision] # None /\ ~reads[revision].invalidated
Refuses == ~Joins /\ (reads[revision] # None \/ Cardinality(Open) >= Concurrency)

RemembersRefusal == waiting' = TRUE

\* readCodexWeeklyUsageBounded, up to its wait.
AskUsage(v) ==
    /\ views[v].state \notin {"waiting"}
    /\ \/ /\ cache # None /\ cache.revision = revision /\ cache.fresh
          /\ Shows(v, "shown", revision) /\ UNCHANGED <<reads, waiting>>
       \/ /\ ~(cache # None /\ cache.revision = revision /\ cache.fresh)
          /\ IF completion = revision
             THEN Shows(v, "shown", Fallback) /\ UNCHANGED <<reads, waiting>>
             ELSE IF Refuses
             THEN Shows(v, "pending", Fallback) /\ reads' = Invalidated /\ RemembersRefusal
             ELSE /\ Shows(v, "waiting", None)
                  /\ reads' = [Invalidated EXCEPT ![revision] =
                        IF Joins THEN @ ELSE [invalidated |-> FALSE, deferred |-> FALSE]]
                  /\ UNCHANGED waiting
    /\ UNCHANGED <<revision, cache, completion>>

\* The wait is over before the read: waitForDisplay answers pending.
WaitsToo(v, r) == views[v].state = "waiting" /\ views[v].revision = r
BudgetEnds(v) ==
    /\ views[v].state = "waiting"
    /\ LET r == views[v].revision
       IN  /\ reads[r] # None
           /\ reads' = [reads EXCEPT ![r].deferred = TRUE]
           /\ Shows(v, IF r = revision THEN "pending" ELSE "shown", IF r = revision THEN Fallback ELSE None)
    /\ UNCHANGED <<revision, waiting, cache, completion>>

\* cachedDashboardEnrichment: a view from the cache alone observes what is pending.
ObservePending(v) ==
    /\ views[v].state # "waiting"
    /\ IF Joins THEN /\ reads' = [reads EXCEPT ![revision].deferred = TRUE]
                     /\ Shows(v, "pending", Fallback)
       ELSE UNCHANGED reads /\ Shows(v, "shown", Fallback)
    /\ UNCHANGED <<revision, waiting, cache, completion>>

Published(k) == ~reads[k].invalidated /\ k = revision
ToldIfDeferred(k) == Published(k) /\ reads[k].deferred
Told(k) == waiting \/ (Published(k) /\ reads[k].deferred)

\* A read settles, with a value or without (readCodexWeeklyUsage catches): settled() unless
\* it was invalidated, the place is free, and whoever was refused is told.
\* The views that still waited go on in the same turn.
SettleRead(k, outcome) ==
    /\ reads[k] # None
    /\ reads' = [reads EXCEPT ![k] = None]
    /\ waiting' = FALSE
    /\ cache' = IF Published(k) /\ outcome = "value" THEN [revision |-> k, fresh |-> TRUE] ELSE cache
    /\ completion' = IF ~Published(k) THEN completion ELSE IF outcome = "value" THEN None ELSE k
    /\ views' = [v \in Views |->
                 IF WaitsToo(v, k)
                 THEN [views[v] EXCEPT !.state = "shown",
                       !.shown = IF k # revision THEN None
                                 ELSE IF outcome = "value" THEN k ELSE Fallback]
                 ELSE IF Told(k) /\ views[v].state = "pending" THEN [views[v] EXCEPT !.state = "told"]
                 ELSE views[v]]
    /\ UNCHANGED revision

AccountChanges ==
    /\ revision' \in Revisions \ {revision}
    /\ views' = [v \in Views |-> [views[v] EXCEPT !.stays = FALSE]]
    /\ UNCHANGED <<reads, waiting, cache, completion>>

\* freshUntil, retainUntil and the time of a completion pass.
CacheAges ==
    /\ \/ cache # None /\ cache.fresh /\ cache' = [cache EXCEPT !.fresh = FALSE] /\ UNCHANGED completion
       \/ cache # None /\ ~cache.fresh /\ cache' = None /\ UNCHANGED completion
       \/ completion # None /\ completion' = None /\ UNCHANGED cache
    /\ UNCHANGED <<revision, reads, waiting, views>>

ReadSettles == \E k \in Revisions, o \in {"value", "none"} : SettleRead(k, o)
DisplayNext ==
    \/ \E v \in Views : AskUsage(v) \/ BudgetEnds(v) \/ ObservePending(v)
    \/ ReadSettles
    \/ AccountChanges \/ CacheAges

\* Readers keep their transport's own deadline: a read that goes on settles.
DisplaySpec ==
    /\ DisplayInit /\ [][DisplayNext]_displayVars
    /\ \A k \in Revisions : WF_displayVars(\E o \in {"value", "none"} : SettleRead(k, o))

-----------------------------------------------------------------------------
\* A view is never given another account's usage, whichever account was in
\* use when the read began, when it settled and while it was cached.
NoOtherAccount ==
    \A v \in Views : views[v].shown # None => views[v].shown = views[v].revision

\* A view that was refused a place, or whose wait ended, is told of what comes
\* while its account stays in use: the one flag of the pool, or the deferred
\* mark of a read that can still be published, has not been lost.
PendingIsTold ==
    \A v \in Views : views[v].state = "pending" /\ views[v].stays
        ~> ~(views[v].state = "pending" /\ views[v].stays)
=============================================================================
