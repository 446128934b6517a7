---------------------------- MODULE ServiceProofs ----------------------------
(* The theorems of three parts the service stands on: the operational        *)
(* database and its recovery point (StateDatabase), the bounded queue of      *)
(* deferred work (ScopeFairQueue) and the pool of display reads               *)
(* (DisplayReads).                                                            *)
EXTENDS StateDatabase, ScopeFairQueue, DisplayReads, FiniteSetTheorems, WellFoundedInduction, TLAPS

--------------------------------------------------------------------------
(* Display reads *)

CacheRows == [revision : Revisions, fresh : BOOLEAN]
ViewRows == [state : {"idle", "waiting", "pending", "shown", "told"}, revision : Revisions \cup {None},
             shown : Revisions \cup {None}, stays : BOOLEAN]

DisplayInv ==
    /\ revision \in Revisions
    /\ cache \in CacheRows \cup {None}
    /\ views \in [Views -> ViewRows]
    /\ NoOtherAccount

LEMMA FallbackIsThisAccounts ==
    ASSUME DisplayInv
    PROVE  Fallback \in {revision, None} /\ revision # None
BY DisplayAssumption DEF DisplayInv, Fallback

LEMMA ShownStep ==
    ASSUME DisplayInv, NEW v \in Views, NEW state \in {"waiting", "pending", "shown"}, NEW of \in {revision, None},
           Shows(v, state, of), UNCHANGED <<revision, cache>>
    PROVE  DisplayInv'
<1>1. views' = [views EXCEPT ![v] = [state |-> state, revision |-> revision, shown |-> of, stays |-> TRUE]]
      BY DEF Shows
<1>2. [state |-> state, revision |-> revision, shown |-> of, stays |-> TRUE] \in ViewRows
      BY DEF ViewRows, DisplayInv
<1> QED BY <1>1, <1>2 DEF DisplayInv, NoOtherAccount

LEMMA DisplayStep == DisplayInv /\ [DisplayNext]_displayVars => DisplayInv'
<1> SUFFICES ASSUME DisplayInv, [DisplayNext]_displayVars PROVE DisplayInv' OBVIOUS
<1>1. CASE UNCHANGED displayVars BY <1>1 DEF displayVars, DisplayInv, NoOtherAccount
<1>2. ASSUME NEW v \in Views, AskUsage(v) PROVE DisplayInv'
  <2>1. UNCHANGED <<revision, cache>> BY <1>2 DEF AskUsage
  <2>2. \/ Shows(v, "shown", revision) \/ Shows(v, "shown", Fallback)
        \/ Shows(v, "pending", Fallback) \/ Shows(v, "waiting", None)
        BY <1>2 DEF AskUsage
  <2> QED BY <2>1, <2>2, ShownStep, FallbackIsThisAccounts
<1>3. ASSUME NEW v \in Views, BudgetEnds(v) PROVE DisplayInv'
  <2>1. UNCHANGED <<revision, cache>> BY <1>3 DEF BudgetEnds
  <2>2. Shows(v, "pending", Fallback) \/ Shows(v, "shown", None) BY <1>3 DEF BudgetEnds
  <2> QED BY <2>1, <2>2, ShownStep, FallbackIsThisAccounts
<1>4. ASSUME NEW v \in Views, ObservePending(v) PROVE DisplayInv'
  <2>1. UNCHANGED <<revision, cache>> BY <1>4 DEF ObservePending
  <2>2. Shows(v, "pending", Fallback) \/ Shows(v, "shown", Fallback) BY <1>4 DEF ObservePending
  <2> QED BY <2>1, <2>2, ShownStep, FallbackIsThisAccounts
<1>5. ASSUME NEW k \in Revisions, NEW o \in {"value", "none"}, SettleRead(k, o) PROVE DisplayInv'
  <2> DEFINE seen == IF k # revision THEN None ELSE IF o = "value" THEN k ELSE Fallback
             went(v) == [views[v] EXCEPT !.state = "shown", !.shown = seen]
             told(v) == [views[v] EXCEPT !.state = "told"]
  <2>1. /\ revision' = revision
        /\ cache' \in {[revision |-> k, fresh |-> TRUE], cache}
        /\ views' = [v \in Views |-> IF WaitsToo(v, k) THEN went(v)
                                     ELSE IF Told(k) /\ views[v].state = "pending" THEN told(v) ELSE views[v]]
        BY <1>5 DEF SettleRead
  <2>2. seen \in {revision, None} /\ (seen # None => seen = k) BY FallbackIsThisAccounts
  <2> HIDE DEF seen
  <2>3. ASSUME NEW v \in Views
        PROVE  /\ views'[v] \in ViewRows
               /\ views'[v].shown # None => views'[v].shown = views'[v].revision
    <3>1. views[v] \in ViewRows /\ (views[v].shown # None => views[v].shown = views[v].revision)
          BY DEF DisplayInv, NoOtherAccount
    <3>2. CASE WaitsToo(v, k)
      <4>1. views'[v] = went(v) BY <2>1, <3>2
      <4>2. went(v) \in ViewRows /\ went(v).shown = seen /\ went(v).revision = views[v].revision
            BY <2>2, <3>1 DEF ViewRows, DisplayInv
      <4> QED BY <2>2, <3>2, <4>1, <4>2 DEF WaitsToo
    <3>3. CASE ~WaitsToo(v, k)
      <4>1. views'[v] \in {told(v), views[v]} BY <2>1, <3>3
      <4>2. told(v) \in ViewRows /\ told(v).shown = views[v].shown /\ told(v).revision = views[v].revision
            BY <3>1 DEF ViewRows
      <4> QED BY <3>1, <4>1, <4>2
    <3> QED BY <3>2, <3>3
  <2>4. views' \in [Views -> ViewRows]
    <3>1. views' = [v \in Views |-> views'[v]] BY <2>1
    <3> QED BY <2>3, <3>1
  <2>5. cache' \in CacheRows \cup {None}
    <3>1. [revision |-> k, fresh |-> TRUE] \in CacheRows BY DEF CacheRows
    <3> QED BY <2>1, <3>1 DEF DisplayInv
  <2> QED BY <2>1, <2>3, <2>4, <2>5 DEF DisplayInv, NoOtherAccount
<1>6. CASE AccountChanges
  <2>1. /\ revision' \in Revisions /\ cache' = cache
        /\ views' = [v \in Views |-> [views[v] EXCEPT !.stays = FALSE]]
        BY <1>6 DEF AccountChanges
  <2>2. \A v \in Views : /\ [views[v] EXCEPT !.stays = FALSE] \in ViewRows
                         /\ [views[v] EXCEPT !.stays = FALSE].shown = views[v].shown
                         /\ [views[v] EXCEPT !.stays = FALSE].revision = views[v].revision
        BY DEF DisplayInv, ViewRows
  <2> QED BY <2>1, <2>2 DEF DisplayInv, NoOtherAccount
<1>7. CASE CacheAges
  <2>1. /\ revision' = revision /\ views' = views
        /\ \/ cache' = cache \/ cache' = None \/ (cache # None /\ cache' = [cache EXCEPT !.fresh = FALSE])
        BY <1>7 DEF CacheAges
  <2>2. cache' \in CacheRows \cup {None} BY <2>1 DEF DisplayInv, CacheRows
  <2> QED BY <2>1, <2>2 DEF DisplayInv, NoOtherAccount
<1> QED BY <1>1, <1>2, <1>3, <1>4, <1>5, <1>6, <1>7 DEF DisplayNext, ReadSettles

\* A view is never given another account's usage, whenever the account is
\* replaced: before a shared read settles, after, or while its value is cached
\* (readCodexWeeklyUsageBounded, DisplayReadPool).
THEOREM UsageIsTheAccounts == DisplaySpec => []NoOtherAccount
<1>1. DisplayInit => DisplayInv
  <2> SUFFICES ASSUME DisplayInit PROVE DisplayInv OBVIOUS
  <2> QED BY DEF DisplayInit, DisplayInv, NoOtherAccount, ViewRows, CacheRows
<1>2. DisplayInv => NoOtherAccount BY DEF DisplayInv
<1> QED BY <1>1, <1>2, DisplayStep, PTL DEF DisplaySpec

--------------------------------------------------------------------------
(* The database: its lease, its upgrade and its recovery point *)

Places == {"new", "lock", "stale", "locked", "claim", "prepare", "backup", "mark", "reconcile", "step", "migrate",
           "finalize", "register", "complete", "up", "serving", "aside", "place", "verify", "gone"}
InspectionRows == [schema : Nat, source : Nat \cup {None}, pending : Nat \cup {None}]
ProcRows == [at : Places, kind : {"bridge", "restore", None}, saw : InspectionRows \cup {None},
             file : Nat \cup {None}, tries : Nat]

DatabaseTypeOK ==
    /\ disk \in Seq(DatabaseRows) /\ path \in DOMAIN disk \cup {None}
    /\ backup \in BackupRows \cup {None} /\ lock \in Procs \cup {None}
    /\ proc \in [Procs -> ProcRows]
    /\ admitted \in BOOLEAN

\* What every database file says of its own upgrade.
Consistent(db) ==
    /\ db.opened = FALSE => db.schema = CurrentSchema
    /\ db.pending # None =>
          db.source # None /\ db.pending \in {db.schema, db.schema + 1} /\ db.pending <= CurrentSchema
    /\ db.work => db.schema = CurrentSchema /\ db.pending = None /\ db.opened # FALSE

\* A recovery point is a database from before an upgrade.
BackupIsOld == backup # None =>
    /\ Consistent(backup.content) /\ backup.content.schema # CurrentSchema /\ backup.content.source = None

Upgraded(db) == db.schema = CurrentSchema /\ db.pending = None
Servers == {p \in Procs : proc[p].at \in {"up", "serving"}}

\* A bridge that is up owns the database that the path names.
ServerOwns == \A p \in Servers :
    /\ path # None /\ proc[p].file = path /\ disk[path].owners = {p} /\ Upgraded(disk[path])
    /\ proc[p].at = "serving" => disk[path].opened # FALSE

LeaseIsLocked == \A p \in LeaseHolders : lock = p

Upgrading == {"claim", "prepare", "backup", "mark", "reconcile", "step", "migrate", "finalize"}
Restoring == {"aside", "place", "verify"}

\* How far the upgrade of the database db in file has come, where the holder p is.
Stage(p, at, file, db, kept) ==
    /\ at \in Upgrading => ~db.work
    /\ at \in {"backup", "mark"} => db.source = None /\ db.schema # CurrentSchema
    /\ at = "mark" => kept # None /\ kept.schema = db.schema /\ kept.file = file
    /\ at \in {"reconcile", "step"} => db.schema = CurrentSchema \/ db.source # None
    /\ at = "step" => db.schema # CurrentSchema \/ db.pending = None
    /\ at = "migrate" => db.source # None /\ db.pending = db.schema + 1
    /\ at = "finalize" => db.source # None
    /\ at \in {"register", "complete"} => Upgraded(db)
    /\ at = "complete" => db.owners = {p}

\* What the holder of the lease may count on, at each of its steps.
StageHolds(p) ==
    LET at == proc[p].at
        db == disk[proc[p].file]
    IN  /\ at # "locked" => Servers = {} /\ proc[p].file \in DOMAIN disk
        /\ at \in Upgrading \cup {"register", "complete", "aside"} => proc[p].file = path
        /\ Stage(p, at, proc[p].file, db, backup)
        /\ at \in Restoring => ~admitted /\ ~db.work /\ BackupIsFor(db, proc[p].file)
        /\ at = "place" => path = None
        /\ at = "verify" => path # None

\* While no live process lost its lock.
Leased ==
    /\ DatabaseTypeOK
    /\ \A f \in DOMAIN disk : Consistent(disk[f])
    /\ BackupIsOld /\ ServerOwns /\ LeaseIsLocked
    /\ \A p \in LeaseHolders : StageHolds(p)
    /\ path = None => Servers = {} /\ ~admitted
    /\ path # None /\ (disk[path].source # None \/ disk[path].opened = FALSE) => BackupIsFor(disk[path], path)
    /\ admitted => path # None /\ disk[path].work

DatabaseInv == raced \in BOOLEAN /\ (~raced => Leased)

LEMMA NoneIsNoFile == None \notin Nat /\ None # FALSE /\ None \notin BackupRows
BY DatabaseAssumption

HoldingPlaces == Upgrading \cup Restoring \cup {"locked", "register", "complete"}

LEMMA HoldersHold ==
    /\ LeaseHolders = {p \in Procs : proc[p].at \in HoldingPlaces}
    /\ LeaseHolders' = {p \in Procs : proc'[p].at \in HoldingPlaces}
BY DEF LeaseHolders, HoldingPlaces, Upgrading, Restoring

\* A process that holds no lease and serves nothing, or stops doing so.
LEMMA OutsideStep ==
    ASSUME Leased, NEW p \in Procs, NEW r \in ProcRows, proc' = [proc EXCEPT ![p] = r],
           r.at \notin HoldingPlaces, r.at \notin {"up", "serving"},
           UNCHANGED <<disk, path, backup, admitted>>, lock' \in Procs \cup {None},
           \A q \in LeaseHolders \ {p} : lock' = q
    PROVE  Leased'
<1> USE DEF Leased
<1>1. proc \in [Procs -> ProcRows] BY DEF DatabaseTypeOK
<1>2. proc'[p] = r /\ (\A q \in Procs \ {p} : proc'[q] = proc[q]) /\ proc' \in [Procs -> ProcRows] BY <1>1
<1>3. LeaseHolders' = LeaseHolders \ {p} BY <1>2, HoldersHold
<1>4. Servers' = Servers \ {p} BY <1>2 DEF Servers
<1>5. DatabaseTypeOK' BY <1>2 DEF DatabaseTypeOK
<1>6. LeaseIsLocked' BY <1>3 DEF LeaseIsLocked
<1>7. ServerOwns' BY <1>2, <1>4 DEF ServerOwns, Servers
<1>8. \A q \in LeaseHolders' : StageHolds(q)'
  <2> TAKE q \in LeaseHolders'
  <2>1. q \in LeaseHolders /\ q \in Procs \ {p} BY <1>3 DEF LeaseHolders
  <2>2. StageHolds(q) /\ proc'[q] = proc[q] BY <1>2, <2>1
  <2> QED BY <1>4, <2>2 DEF StageHolds, BackupIsFor
<1>9. BackupIsOld' BY DEF BackupIsOld
<1> QED BY <1>4, <1>5, <1>6, <1>7, <1>8, <1>9 DEF BackupIsFor

\* The holder of the lease is alone.
LEMMA OneHolder ==
    ASSUME Leased, NEW p \in LeaseHolders
    PROVE  /\ p \in Procs /\ LeaseHolders = {p} /\ lock = p /\ StageHolds(p) /\ proc[p] \in ProcRows
BY DEF Leased, LeaseIsLocked, LeaseHolders, DatabaseTypeOK

\* The holder goes on and writes the database that the path names, or its recovery point.
LEMMA HolderWrites ==
    ASSUME Leased, NEW p \in LeaseHolders, Servers = {}, path # None,
           NEW r \in ProcRows, proc' = [proc EXCEPT ![p] = r], r.at \in HoldingPlaces,
           NEW db \in DatabaseRows, disk' = [disk EXCEPT ![path] = db], Consistent(db), db.work = disk[path].work,
           backup' \in BackupRows \cup {None}, BackupIsOld',
           db.source # None \/ db.opened = FALSE =>
               backup' # None /\ backup'.schema = db.from /\ backup'.file = path,
           proc'[p] = r /\ disk'[path] = db /\ Servers' = {} /\ DOMAIN disk' = DOMAIN disk => StageHolds(p)',
           UNCHANGED <<path, lock, admitted>>
    PROVE  Leased'
<1> USE DEF Leased
<1>1. proc \in [Procs -> ProcRows] /\ path \in DOMAIN disk BY DEF DatabaseTypeOK
<1>2. /\ p \in Procs /\ LeaseHolders = {p} /\ lock = p BY OneHolder
<1>3. proc'[p] = r /\ (\A q \in Procs \ {p} : proc'[q] = proc[q]) /\ proc' \in [Procs -> ProcRows] BY <1>1, <1>2
<1>4. LeaseHolders' = {p} BY <1>2, <1>3, HoldersHold
<1>5. Servers' = {}
  <2>1. r.at \notin {"up", "serving"} BY DEF HoldingPlaces, Upgrading, Restoring
  <2> QED BY <1>3, <2>1 DEF Servers
<1>6. /\ disk' \in Seq(DatabaseRows) /\ DOMAIN disk' = DOMAIN disk /\ disk'[path] = db
      /\ \A f \in DOMAIN disk : f # path => disk'[f] = disk[f]
      BY <1>1 DEF DatabaseTypeOK
<1>7. DatabaseTypeOK' BY <1>3, <1>6 DEF DatabaseTypeOK
<1>8. LeaseIsLocked' /\ ServerOwns' BY <1>2, <1>4, <1>5 DEF LeaseIsLocked, ServerOwns
<1>9. \A q \in LeaseHolders' : StageHolds(q)' BY <1>3, <1>4, <1>5, <1>6
<1>10. \A f \in DOMAIN disk' : Consistent(disk'[f]) BY <1>6
<1> QED BY <1>5, <1>6, <1>7, <1>8, <1>9, <1>10 DEF BackupIsFor

\* Where a process goes next; nothing else of it changes.
LEMMA At ==
    ASSUME Leased, NEW p \in Procs, NEW at \in Places
    PROVE  /\ [proc[p] EXCEPT !.at = at] \in ProcRows /\ [proc[p] EXCEPT !.at = at].at = at
           /\ [proc[p] EXCEPT !.at = at].file = proc[p].file
           /\ MovesTo(p, at) => proc' = [proc EXCEPT ![p] = [proc[p] EXCEPT !.at = at]]
<1>1. proc[p] \in ProcRows BY DEF Leased, DatabaseTypeOK
<1> QED BY <1>1 DEF ProcRows, MovesTo

LEMMA LeavesStep ==
    ASSUME Leased, NEW p \in Procs, MovesTo(p, "gone"), UNCHANGED <<disk, path, backup, admitted>>,
           lock' = lock \/ (Released(p) /\ p \in LeaseHolders)
    PROVE  Leased'
<1> DEFINE r == [proc[p] EXCEPT !.at = "gone"]
<1>1. "gone" \in Places BY DEF Places
<1>2. r \in ProcRows /\ r.at = "gone" /\ proc' = [proc EXCEPT ![p] = r] BY <1>1, At
<1>3. r.at \notin HoldingPlaces /\ r.at \notin {"up", "serving"} BY <1>2 DEF HoldingPlaces, Upgrading, Restoring
<1> HIDE DEF r
<1>4. lock' \in Procs \cup {None} BY DEF Leased, DatabaseTypeOK, Released
<1>5. \A q \in LeaseHolders \ {p} : lock' = q
  <2>1. CASE lock' = lock BY <2>1 DEF Leased, LeaseIsLocked
  <2>2. CASE Released(p) /\ p \in LeaseHolders BY <2>2, OneHolder
  <2> QED BY <2>1, <2>2
<1> QED BY <1>2, <1>3, <1>4, <1>5, OutsideStep

LEMMA FailsLeaves == ASSUME Leased, NEW p \in LeaseHolders, Fails(p) PROVE Leased'
BY LeavesStep, OneHolder DEF Fails

LEMMA LaunchStep ==
    ASSUME Leased, NEW p \in Procs, NEW kind \in {"bridge", "restore"}, Launch(p, kind) PROVE Leased'
<1> USE NoneIsNoFile
<1> DEFINE r == [proc[p] EXCEPT !.at = "lock", !.kind = kind, !.saw = Inspection]
<1>1. /\ proc' = [proc EXCEPT ![p] = r] /\ UNCHANGED <<disk, path, backup, lock, admitted>>
      BY DEF Launch
<1>2. Inspection \in InspectionRows \cup {None}
  <2>1. CASE path = None BY <2>1 DEF Inspection
  <2>2. CASE path # None
    <3>1. disk[path] \in DatabaseRows BY <2>2 DEF Leased, DatabaseTypeOK
    <3> QED BY <2>2, <3>1 DEF Inspection, InspectionRows, DatabaseRows
  <2> QED BY <2>1, <2>2
<1>3. r \in ProcRows /\ r.at = "lock"
  <2>1. proc[p] \in ProcRows BY DEF Leased, DatabaseTypeOK
  <2> QED BY <1>2, <2>1 DEF ProcRows, Places
<1>4. r.at \notin HoldingPlaces /\ r.at \notin {"up", "serving"} BY <1>3 DEF HoldingPlaces, Upgrading, Restoring
<1> HIDE DEF r
<1>5. \A q \in LeaseHolders \ {p} : lock' = q BY <1>1 DEF Leased, LeaseIsLocked
<1> QED BY <1>1, <1>3, <1>4, <1>5, OutsideStep DEF Leased, DatabaseTypeOK

LEMMA TakeLockStep == ASSUME Leased, NEW p \in Procs, TakeLock(p) PROVE Leased'
<1> USE NoneIsNoFile
<1>1. UNCHANGED <<disk, path, backup, admitted>> /\ proc \in [Procs -> ProcRows] BY DEF TakeLock, Leased, DatabaseTypeOK
<1>2. CASE lock = None
  <2> DEFINE r == [proc[p] EXCEPT !.at = "locked"]
  <2>1. lock' = p /\ MovesTo(p, "locked") BY <1>2 DEF TakeLock
  <2>2. r \in ProcRows /\ r.at = "locked" /\ proc' = [proc EXCEPT ![p] = r]
    <3>1. "locked" \in Places BY DEF Places
    <3> QED BY <2>1, <3>1, At
  <2> HIDE DEF r
  <2>3. LeaseHolders = {} BY <1>2, DatabaseAssumption DEF Leased, LeaseIsLocked, LeaseHolders
  <2>4. proc'[p] = r /\ (\A q \in Procs \ {p} : proc'[q] = proc[q]) /\ proc' \in [Procs -> ProcRows]
        BY <1>1, <2>2
  <2>5. LeaseHolders' = {p}
    <3>1. "locked" \in HoldingPlaces BY DEF HoldingPlaces
    <3> QED BY <2>2, <2>3, <2>4, <3>1, HoldersHold
  <2>6. Servers' = Servers
    <3>1. proc[p].at \notin {"up", "serving"} BY DEF TakeLock
    <3> QED BY <2>2, <2>4, <3>1 DEF Servers
  <2>7. DatabaseTypeOK' BY <1>1, <2>1, <2>4 DEF Leased, DatabaseTypeOK
  <2>8. ServerOwns' /\ LeaseIsLocked'
    <3>1. p \notin Servers BY DEF TakeLock, Servers
    <3> QED BY <1>1, <2>1, <2>4, <2>5, <2>6, <3>1 DEF Leased, ServerOwns, LeaseIsLocked, Servers
  <2>9. \A q \in LeaseHolders' : StageHolds(q)'
        BY <2>2, <2>4, <2>5 DEF StageHolds, Stage, Upgrading, Restoring
  <2>10. BackupIsOld' BY <1>1 DEF Leased, BackupIsOld
  <2> QED BY <1>1, <2>6, <2>7, <2>8, <2>9, <2>10 DEF Leased, BackupIsFor
<1>3. CASE lock # None
  <2> DEFINE at == IF IsAlive(lock) THEN "gone" ELSE "stale"
             r == [proc[p] EXCEPT !.at = at]
  <2>1. MovesTo(p, at) /\ lock' = lock BY <1>3 DEF TakeLock
  <2>2. at \in {"gone", "stale"} OBVIOUS
  <2> HIDE DEF at
  <2>3. r \in ProcRows /\ r.at = at /\ proc' = [proc EXCEPT ![p] = r]
    <3>1. at \in Places BY <2>2 DEF Places
    <3> QED BY <2>1, <3>1, At
  <2>4. r.at \notin HoldingPlaces /\ r.at \notin {"up", "serving"}
        BY <2>2, <2>3 DEF HoldingPlaces, Upgrading, Restoring
  <2> HIDE DEF r
  <2>5. \A q \in LeaseHolders \ {p} : lock' = q BY <2>1 DEF Leased, LeaseIsLocked
  <2> QED BY <1>1, <2>1, <2>3, <2>4, <2>5, OutsideStep DEF Leased, DatabaseTypeOK
<1> QED BY <1>2, <1>3

\* A stale lock is removed by name: nobody may hold it by then.
LEMMA RemoveStaleStep ==
    ASSUME Leased, NEW p \in Procs, RemoveStaleLock(p), ~raced' PROVE Leased'
<1> USE NoneIsNoFile
<1> DEFINE at == IF proc[p].tries = 0 THEN "lock" ELSE "gone"
           r == [proc[p] EXCEPT !.tries = proc[p].tries + 1, !.at = at]
<1>1. lock' = None /\ proc' = [proc EXCEPT ![p] = r] /\ UNCHANGED <<disk, path, backup, admitted>>
  <2>1. lock' = None /\ UNCHANGED <<disk, path, backup, admitted>> BY DEF RemoveStaleLock
  <2>2. proc' = [proc EXCEPT ![p] = [proc[p] EXCEPT !.tries = proc[p].tries + 1,
                                       !.at = IF proc[p].tries = 0 THEN "lock" ELSE "gone"]]
        BY DEF RemoveStaleLock
  <2> QED BY <2>1, <2>2
<1>6. ~(lock # None /\ IsAlive(lock))
  <2>1. raced' = (raced \/ (lock # None /\ IsAlive(lock))) BY DEF RemoveStaleLock
  <2> QED BY <2>1
<1>2. at \in {"lock", "gone"} OBVIOUS
<1> HIDE DEF at
<1>3. r \in ProcRows /\ r.at = at
  <2>1. proc[p] \in ProcRows BY DEF Leased, DatabaseTypeOK
  <2>2. at \in Places BY <1>2 DEF Places
  <2>3. proc[p].tries + 1 \in Nat BY <2>1 DEF ProcRows
  <2> QED BY <2>1, <2>2, <2>3 DEF ProcRows
<1>4. r.at \notin HoldingPlaces /\ r.at \notin {"up", "serving"} BY <1>2, <1>3 DEF HoldingPlaces, Upgrading, Restoring
<1> HIDE DEF r
<1>5. LeaseHolders = {}
  <2> SUFFICES ASSUME NEW q \in LeaseHolders PROVE FALSE OBVIOUS
  <2>1. lock = q /\ q \in Procs BY OneHolder
  <2>2. q # None BY <2>1, DatabaseAssumption
  <2>3. proc[q].at \notin {"new", "gone"} BY DEF LeaseHolders
  <2> QED BY <1>6, <2>1, <2>2, <2>3 DEF IsAlive
<1> QED BY <1>1, <1>3, <1>4, <1>5, OutsideStep

--------------------------------------------------------------------------
(* The upgrade *)

Opening == Upgrading \cup {"register"}

LEMMA AtWork ==
    ASSUME Leased, NEW p \in Procs, proc[p].at \in Opening
    PROVE  /\ p \in LeaseHolders /\ Servers = {} /\ StageHolds(p)
           /\ proc[p].file = path /\ path # None /\ path \in DOMAIN disk
           /\ Mine(p) = disk[path] /\ Mine(p) \in DatabaseRows /\ Consistent(Mine(p))
           /\ Stage(p, proc[p].at, path, Mine(p), backup)
           /\ Mine(p).source # None \/ Mine(p).opened = FALSE => BackupIsFor(Mine(p), path)
           /\ backup \in BackupRows \cup {None} /\ BackupIsOld
<1>1. p \in LeaseHolders BY HoldersHold DEF Opening, HoldingPlaces
<1>2. StageHolds(p) BY <1>1, OneHolder
<1>3. proc[p].at # "locked" BY DEF Opening, Upgrading
<1>4. Servers = {} /\ proc[p].file \in DOMAIN disk BY <1>2, <1>3 DEF StageHolds
<1>5. proc[p].file = path BY <1>2 DEF StageHolds, Opening
<1>6. disk \in Seq(DatabaseRows) BY DEF Leased, DatabaseTypeOK
<1>7. path \in Nat BY <1>4, <1>5, <1>6
<1>8. disk[path] \in DatabaseRows BY <1>4, <1>5, <1>6
<1> QED BY <1>1, <1>2, <1>4, <1>5, <1>7, <1>8, NoneIsNoFile DEF Leased, DatabaseTypeOK, Mine, StageHolds

\* A step of the holder that leaves the database that the path names as db.
LEMMA OpeningStep ==
    ASSUME Leased, NEW p \in Procs, proc[p].at \in Opening,
           NEW at \in Opening \cup {"complete"}, MovesTo(p, at),
           NEW db \in DatabaseRows, disk' = [disk EXCEPT ![path] = db], Consistent(db), db.work = Mine(p).work,
           backup' \in BackupRows \cup {None}, BackupIsOld',
           db.source # None \/ db.opened = FALSE =>
               backup' # None /\ backup'.schema = db.from /\ backup'.file = path,
           Stage(p, at, path, db, backup'),
           UNCHANGED <<path, lock, admitted>>
    PROVE  Leased'
<1> DEFINE r == [proc[p] EXCEPT !.at = at]
<1>1. at \in HoldingPlaces /\ at \in Places BY DEF Opening, HoldingPlaces, Upgrading, Places
<1>2. r \in ProcRows /\ r.at = at /\ r.file = proc[p].file /\ proc' = [proc EXCEPT ![p] = r] BY <1>1, At
<1> HIDE DEF r
<1>3. /\ p \in LeaseHolders /\ Servers = {} /\ proc[p].file = path /\ path # None /\ path \in DOMAIN disk
      /\ Mine(p) = disk[path]
      BY AtWork
<1>4. ASSUME proc'[p] = r, disk'[path] = db, Servers' = {}, DOMAIN disk' = DOMAIN disk PROVE StageHolds(p)'
  <2>1. at \notin Restoring BY DEF Opening, Upgrading, Restoring
  <2> QED BY <1>2, <1>3, <1>4, <2>1 DEF StageHolds, Restoring
<1> QED BY <1>1, <1>2, <1>3, <1>4, HolderWrites

\* A step of the holder that writes neither file.
LEMMA OpeningMoves ==
    ASSUME Leased, NEW p \in Procs, proc[p].at \in Opening,
           NEW at \in Opening \cup {"complete"}, MovesTo(p, at),
           Stage(p, at, path, Mine(p), backup), UNCHANGED <<disk, backup, path, lock, admitted>>
    PROVE  Leased'
<1>1. disk' = [disk EXCEPT ![path] = Mine(p)]
  <2>1. disk \in Seq(DatabaseRows) BY DEF Leased, DatabaseTypeOK
  <2>2. path \in DOMAIN disk /\ Mine(p) = disk[path] BY AtWork
  <2> QED BY <2>1, <2>2
<1>2. BackupIsOld' BY AtWork DEF BackupIsOld
<1> QED BY <1>1, <1>2, AtWork, OpeningStep DEF BackupIsFor

\* A step of the holder that writes the database and leaves the recovery point.
LEMMA OpeningWrites ==
    ASSUME Leased, NEW p \in Procs, proc[p].at \in Opening,
           NEW at \in Opening \cup {"complete"}, MovesTo(p, at),
           NEW db \in DatabaseRows, Write(p, db), Consistent(db), db.work = Mine(p).work,
           db.source # None \/ db.opened = FALSE => BackupIsFor(db, path),
           Stage(p, at, path, db, backup), UNCHANGED <<backup, path, lock, admitted>>
    PROVE  Leased'
<1>1. disk' = [disk EXCEPT ![path] = db] BY AtWork DEF Write
<1>2. BackupIsOld' BY AtWork DEF BackupIsOld
<1> QED BY <1>1, <1>2, AtWork, OpeningStep DEF BackupIsFor

LEMMA ClaimStep == ASSUME Leased, NEW p \in Procs, ClaimExclusive(p) PROVE Leased'
<1>1. proc[p].at = "claim" /\ "claim" \in Upgrading BY DEF ClaimExclusive, Upgrading
<1>2. proc[p].at \in Opening /\ "prepare" \in Opening BY <1>1 DEF Opening, Upgrading
<1>3. CASE Fails(p) BY <1>2, <1>3, AtWork, FailsLeaves
<1>4. CASE MovesTo(p, "prepare") /\ UNCHANGED <<disk, path, backup, lock, admitted>>
  <2>1. Stage(p, "prepare", path, Mine(p), backup) BY <1>1, <1>2, AtWork DEF Stage
  <2> QED BY <1>2, <1>4, <2>1, OpeningMoves
<1> QED BY <1>3, <1>4 DEF ClaimExclusive

LEMMA PrepareStep == ASSUME Leased, NEW p \in Procs, PrepareMigration(p) PROVE Leased'
<1> DEFINE db == Mine(p)
<1>1. proc[p].at = "prepare" /\ "prepare" \in Upgrading BY DEF PrepareMigration, Upgrading
<1>2. proc[p].at \in Opening /\ "backup" \in Opening /\ "reconcile" \in Opening BY <1>1 DEF Opening, Upgrading
<1>3. /\ db \in DatabaseRows /\ Consistent(db) /\ ~db.work /\ path \in DOMAIN disk /\ db = disk[path]
      /\ backup \in BackupRows \cup {None}
      BY <1>1, <1>2, AtWork DEF Stage
<1> HIDE DEF db
<1>4. CASE Fails(p) BY <1>2, <1>4, AtWork, FailsLeaves
<1>5. CASE /\ db.schema # CurrentSchema /\ db.source = None
           /\ backup' = None /\ MovesTo(p, "backup") /\ UNCHANGED <<disk, path, lock, admitted>>
  <2>1. disk' = [disk EXCEPT ![path] = db]
    <3>1. disk \in Seq(DatabaseRows) BY DEF Leased, DatabaseTypeOK
    <3> QED BY <1>3, <1>5, <3>1
  <2>2. BackupIsOld' BY <1>5 DEF BackupIsOld
  <2>3. db.opened # FALSE BY <1>3, <1>5 DEF Consistent
  <2>4. Stage(p, "backup", path, db, backup') BY <1>3, <1>5 DEF Stage, Upgrading
  <2> QED BY <1>2, <1>3, <1>5, <2>1, <2>2, <2>3, <2>4, OpeningStep DEF db
<1>6. CASE /\ db.schema = CurrentSchema \/ db.source # None
           /\ MovesTo(p, "reconcile") /\ UNCHANGED <<disk, path, backup, lock, admitted>>
  <2>1. Stage(p, "reconcile", path, db, backup) BY <1>3, <1>6 DEF Stage, Upgrading
  <2> QED BY <1>2, <1>6, <2>1, OpeningMoves DEF db
<1> QED BY <1>4, <1>5, <1>6 DEF PrepareMigration, NeedsBackup, db

\* The recovery point is of the database that the path names, before the upgrade.
LEMMA BackupStep == ASSUME Leased, NEW p \in Procs, CreateMigrationBackup(p) PROVE Leased'
<1> DEFINE db == Mine(p)
<1>1. proc[p].at = "backup" BY DEF CreateMigrationBackup
<1>2. proc[p].at \in Opening /\ "mark" \in Opening BY <1>1 DEF Opening, Upgrading
<1>3. /\ db \in DatabaseRows /\ Consistent(db) /\ ~db.work /\ path \in DOMAIN disk /\ db = disk[path]
      /\ db.source = None /\ db.schema # CurrentSchema
  <2>1. Stage(p, "backup", path, db, backup) BY <1>1, <1>2, AtWork
  <2> QED BY <1>2, <2>1, AtWork DEF Stage, Upgrading
<1> HIDE DEF db
<1>4. /\ backup' = [schema |-> db.schema, file |-> path, content |-> db]
      /\ MovesTo(p, "mark") /\ UNCHANGED <<disk, path, lock, admitted>>
      BY DEF CreateMigrationBackup, db
<1>5. disk \in Seq(DatabaseRows) BY DEF Leased, DatabaseTypeOK
<1>6. disk' = [disk EXCEPT ![path] = db] BY <1>3, <1>4, <1>5
<1>7. backup' \in BackupRows /\ backup' # None
  <2>1. db.schema \in Nat /\ path \in Nat BY <1>3, <1>5 DEF DatabaseRows
  <2> QED BY <1>3, <1>4, <2>1, NoneIsNoFile DEF BackupRows
<1>8. BackupIsOld' BY <1>3, <1>4 DEF BackupIsOld
<1>9. Stage(p, "mark", path, db, backup') BY <1>3, <1>4, <1>7 DEF Stage
<1>10. db.opened # FALSE BY <1>3 DEF Consistent
<1> QED BY <1>2, <1>3, <1>4, <1>6, <1>7, <1>8, <1>9, <1>10, OpeningStep DEF db

LEMMA SourceStep == ASSUME Leased, NEW p \in Procs, RecordSource(p) PROVE Leased'
<1> DEFINE old == Mine(p)
           db == [old EXCEPT !.source = old.schema, !.from = old.schema]
<1>1. proc[p].at = "mark" BY DEF RecordSource
<1>2. proc[p].at \in Opening /\ "reconcile" \in Opening BY <1>1 DEF Opening, Upgrading
<1>3. /\ old \in DatabaseRows /\ Consistent(old) /\ ~old.work /\ old.source = None /\ old.schema # CurrentSchema
      /\ backup # None /\ backup.schema = old.schema /\ backup.file = path
  <2>1. Stage(p, "mark", path, old, backup) BY <1>1, <1>2, AtWork
  <2> QED BY <1>2, <2>1, AtWork DEF Stage, Upgrading
<1> HIDE DEF old
<1>4. Write(p, db) /\ MovesTo(p, "reconcile") /\ UNCHANGED <<path, backup, lock, admitted>>
      BY DEF RecordSource, old
<1>5. /\ db \in DatabaseRows /\ db.schema = old.schema /\ db.source = old.schema /\ db.from = old.schema
      /\ db.pending = old.pending /\ db.opened = old.opened /\ db.work = old.work
      BY <1>3 DEF DatabaseRows
<1> HIDE DEF db
<1>6. old.schema # None
  <2>1. old.schema \in Nat BY <1>3 DEF DatabaseRows
  <2> QED BY <2>1, NoneIsNoFile
<1>7. Consistent(db) BY <1>3, <1>5 DEF Consistent
<1>8. Stage(p, "reconcile", path, db, backup) BY <1>3, <1>5, <1>6 DEF Stage
<1>9. BackupIsFor(db, path) BY <1>3, <1>5 DEF BackupIsFor
<1> QED BY <1>2, <1>4, <1>5, <1>7, <1>8, <1>9, OpeningWrites DEF old

\* A step of the upgrade closes, and with the last one the upgrade itself.
LEMMA FinalizedRow ==
    ASSUME NEW db \in DatabaseRows, Consistent(db), ~db.work,
           db.source # None, BackupIsFor(db, path), NEW p
    PROVE  /\ Finalized(db) \in DatabaseRows /\ Consistent(Finalized(db)) /\ Finalized(db).work = db.work
           /\ BackupIsFor(Finalized(db), path)
           /\ Stage(p, "step", path, Finalized(db), backup)
<1> USE NoneIsNoFile
<1>1. CASE db.schema = CurrentSchema
  <2> DEFINE new == [db EXCEPT !.pending = None, !.source = None, !.opened = FALSE]
  <2>1. Finalized(db) = new BY <1>1 DEF Finalized
  <2>2. /\ new \in DatabaseRows /\ new.schema = CurrentSchema /\ new.pending = None /\ new.from = db.from
        /\ new.work = db.work
        BY <1>1 DEF DatabaseRows
  <2> HIDE DEF new
  <2> QED BY <2>1, <2>2 DEF Consistent, BackupIsFor, Stage
<1>2. CASE db.schema # CurrentSchema
  <2> DEFINE new == [db EXCEPT !.pending = None]
  <2>1. Finalized(db) = new BY <1>2 DEF Finalized
  <2>2. /\ new \in DatabaseRows /\ new.schema = db.schema /\ new.pending = None /\ new.from = db.from
        /\ new.work = db.work /\ new.source = db.source /\ new.opened = db.opened
        BY <1>2 DEF DatabaseRows
  <2> HIDE DEF new
  <2> QED BY <1>2, <2>1, <2>2 DEF Consistent, BackupIsFor, Stage
<1> QED BY <1>1, <1>2

LEMMA ReconcileStep == ASSUME Leased, NEW p \in Procs, ReconcilePending(p) PROVE Leased'
<1> DEFINE db == Mine(p)
<1>1. proc[p].at = "reconcile" BY DEF ReconcilePending
<1>2. proc[p].at \in Opening /\ "step" \in Opening BY <1>1 DEF Opening, Upgrading
<1>3. /\ db \in DatabaseRows /\ Consistent(db) /\ ~db.work
      /\ db.schema = CurrentSchema \/ db.source # None
      /\ db.source # None \/ db.opened = FALSE => BackupIsFor(db, path)
  <2>1. Stage(p, "reconcile", path, db, backup) BY <1>1, <1>2, AtWork
  <2> QED BY <1>2, <2>1, AtWork DEF Stage, Upgrading
<1> HIDE DEF db
<1>4. CASE Fails(p) BY <1>2, <1>4, AtWork, FailsLeaves
<1>5. CASE /\ db.pending = db.schema /\ Write(p, Finalized(db)) /\ MovesTo(p, "step")
           /\ UNCHANGED <<path, backup, lock, admitted>>
  <2>1. db.schema # None
    <3>1. db.schema \in Nat BY <1>3 DEF DatabaseRows
    <3> QED BY <3>1, NoneIsNoFile
  <2>2. db.source # None /\ BackupIsFor(db, path) BY <1>3, <1>5, <2>1 DEF Consistent
  <2> QED BY <1>2, <1>3, <1>5, <2>2, FinalizedRow, OpeningWrites DEF db
<1>6. CASE db.pending # db.schema /\ MovesTo(p, "step") /\ UNCHANGED <<disk, path, backup, lock, admitted>>
  <2>1. db.schema = CurrentSchema => db.pending = None
    <3>1. ASSUME db.schema = CurrentSchema, db.pending # None PROVE FALSE
      <4>1. db.pending \in {db.schema, db.schema + 1} /\ db.pending <= CurrentSchema BY <1>3, <3>1 DEF Consistent
      <4>2. db.schema \in Nat BY <1>3 DEF DatabaseRows
      <4> QED BY <1>6, <3>1, <4>1, <4>2
    <3> QED BY <3>1
  <2>2. Stage(p, "step", path, db, backup) BY <1>3, <2>1 DEF Stage
  <2> QED BY <1>2, <1>6, <2>2, OpeningMoves DEF db
<1> QED BY <1>4, <1>5, <1>6 DEF ReconcilePending, db

LEMMA PendingStep == ASSUME Leased, NEW p \in Procs, RecordPending(p) PROVE Leased'
<1> DEFINE old == Mine(p)
           db == [old EXCEPT !.pending = old.schema + 1]
<1>1. proc[p].at = "step" /\ old.schema < CurrentSchema BY DEF RecordPending
<1>2. proc[p].at \in Opening /\ "migrate" \in Opening BY <1>1 DEF Opening, Upgrading
<1>3. /\ old \in DatabaseRows /\ Consistent(old) /\ ~old.work
      /\ old.schema = CurrentSchema \/ old.source # None
      /\ old.source # None \/ old.opened = FALSE => BackupIsFor(old, path)
  <2>1. Stage(p, "step", path, old, backup) BY <1>1, <1>2, AtWork
  <2> QED BY <1>2, <2>1, AtWork DEF Stage, Upgrading
<1> HIDE DEF old
<1>4. Write(p, db) /\ MovesTo(p, "migrate") /\ UNCHANGED <<path, backup, lock, admitted>>
      BY DEF RecordPending, old
<1>5. /\ db \in DatabaseRows /\ db.schema = old.schema /\ db.source = old.source /\ db.from = old.from
      /\ db.pending = old.schema + 1 /\ db.opened = old.opened /\ db.work = old.work
      BY <1>3 DEF DatabaseRows
<1> HIDE DEF db
<1>6. old.schema \in Nat /\ CurrentSchema \in Nat BY <1>3, DatabaseAssumption DEF DatabaseRows
<1>7. old.source # None BY <1>1, <1>3, <1>6
<1>8. Consistent(db)
  <2>1. db.pending \in {db.schema, db.schema + 1} /\ db.pending <= CurrentSchema BY <1>1, <1>5, <1>6
  <2>2. db.opened = FALSE => db.schema = CurrentSchema BY <1>3, <1>5 DEF Consistent
  <2>3. ~db.work BY <1>3, <1>5
  <2> QED BY <1>5, <1>7, <2>1, <2>2, <2>3 DEF Consistent
<1>9. Stage(p, "migrate", path, db, backup) BY <1>3, <1>5, <1>7 DEF Stage
<1>10. BackupIsFor(db, path) BY <1>3, <1>5, <1>7 DEF BackupIsFor
<1> QED BY <1>2, <1>4, <1>5, <1>8, <1>9, <1>10, OpeningWrites DEF old

LEMMA MigrateStep == ASSUME Leased, NEW p \in Procs, Migrate(p) PROVE Leased'
<1> DEFINE old == Mine(p)
           db == [old EXCEPT !.schema = old.schema + 1]
<1>1. proc[p].at = "migrate" BY DEF Migrate
<1>2. proc[p].at \in Opening /\ "finalize" \in Opening BY <1>1 DEF Opening, Upgrading
<1>3. /\ old \in DatabaseRows /\ Consistent(old) /\ ~old.work
      /\ old.source # None /\ old.pending = old.schema + 1
      /\ BackupIsFor(old, path)
  <2>1. Stage(p, "migrate", path, old, backup) BY <1>1, <1>2, AtWork
  <2> QED BY <1>2, <2>1, AtWork DEF Stage, Upgrading
<1>4. Write(p, db) /\ MovesTo(p, "finalize") /\ UNCHANGED <<path, backup, lock, admitted>>
  <2>1. Write(p, [Mine(p) EXCEPT !.schema = Mine(p).schema + 1]) BY DEF Migrate
  <2> QED BY <2>1 DEF Migrate
<1> HIDE DEF old
<1>5. /\ db \in DatabaseRows /\ db.schema = old.schema + 1 /\ db.source = old.source /\ db.from = old.from
      /\ db.pending = old.pending /\ db.opened = old.opened /\ db.work = old.work
      BY <1>3 DEF DatabaseRows
<1> HIDE DEF db
<1>6. old.schema \in Nat /\ CurrentSchema \in Nat BY <1>3, DatabaseAssumption DEF DatabaseRows
<1>7. db.pending <= CurrentSchema /\ old.schema # CurrentSchema
  <2>1. old.pending # None BY <1>3, <1>6, NoneIsNoFile
  <2> QED BY <1>3, <1>5, <1>6, <2>1 DEF Consistent
<1>8. Consistent(db) BY <1>3, <1>5, <1>6, <1>7 DEF Consistent
<1>9. Stage(p, "finalize", path, db, backup) BY <1>3, <1>5 DEF Stage
<1>10. BackupIsFor(db, path) BY <1>3, <1>5 DEF BackupIsFor
<1> QED BY <1>2, <1>4, <1>5, <1>8, <1>9, <1>10, OpeningWrites DEF old

LEMMA FinalizeStep == ASSUME Leased, NEW p \in Procs, FinalizeMigration(p) PROVE Leased'
<1> DEFINE db == Mine(p)
<1>1. proc[p].at = "finalize" BY DEF FinalizeMigration
<1>2. proc[p].at \in Opening /\ "step" \in Opening BY <1>1 DEF Opening, Upgrading
<1>3. /\ db \in DatabaseRows /\ Consistent(db) /\ ~db.work
      /\ db.source # None /\ BackupIsFor(db, path)
  <2>1. Stage(p, "finalize", path, db, backup) BY <1>1, <1>2, AtWork
  <2> QED BY <1>2, <2>1, AtWork DEF Stage, Upgrading
<1> HIDE DEF db
<1>4. Write(p, Finalized(db)) /\ MovesTo(p, "step") /\ UNCHANGED <<path, backup, lock, admitted>>
      BY DEF FinalizeMigration, db
<1> QED BY <1>2, <1>3, <1>4, FinalizedRow, OpeningWrites DEF db

LEMMA ReopenStep == ASSUME Leased, NEW p \in Procs, ReopenAfterMigration(p) PROVE Leased'
<1> DEFINE db == Mine(p)
<1>1. proc[p].at = "step" /\ db.schema = CurrentSchema BY DEF ReopenAfterMigration
<1>2. proc[p].at \in Opening /\ "register" \in Opening BY <1>1 DEF Opening, Upgrading
<1>3. db.pending = None
  <2>1. Stage(p, "step", path, db, backup) BY <1>1, <1>2, AtWork
  <2> QED BY <1>1, <2>1 DEF Stage
<1>4. MovesTo(p, "register") /\ UNCHANGED <<disk, path, backup, lock, admitted>>
  <2>1. proc' = [proc EXCEPT ![p] = [proc[p] EXCEPT !.at = "register", !.file = path]]
        BY DEF ReopenAfterMigration
  <2>2. proc[p] \in ProcRows /\ proc \in [Procs -> ProcRows] BY DEF Leased, DatabaseTypeOK
  <2>3. proc[p].file = path BY <1>2, AtWork
  <2>4. [proc[p] EXCEPT !.at = "register", !.file = path] = [proc[p] EXCEPT !.at = "register"]
        BY <2>2, <2>3 DEF ProcRows
  <2>5. MovesTo(p, "register") BY <2>1, <2>2, <2>4 DEF MovesTo
  <2> QED BY <2>5 DEF ReopenAfterMigration
<1> HIDE DEF db
<1>5. Stage(p, "register", path, db, backup) BY <1>1, <1>3 DEF Stage, Upgraded, Upgrading
<1> QED BY <1>2, <1>4, <1>5, OpeningMoves DEF db

LEMMA RegisterStep == ASSUME Leased, NEW p \in Procs, RegisterBridgeInstance(p) PROVE Leased'
<1> DEFINE old == Mine(p)
           db == [old EXCEPT !.owners = {p}]
<1>1. proc[p].at = "register" BY DEF RegisterBridgeInstance
<1>2. proc[p].at \in Opening BY <1>1 DEF Opening
<1>3. /\ old \in DatabaseRows /\ Consistent(old) /\ Upgraded(old)
      /\ old.source # None \/ old.opened = FALSE => BackupIsFor(old, path)
  <2>1. Stage(p, "register", path, old, backup) BY <1>1, <1>2, AtWork
  <2> QED BY <1>2, <2>1, AtWork DEF Stage
<1>4. CASE Fails(p) BY <1>2, <1>4, AtWork, FailsLeaves
<1>5. CASE Write(p, db) /\ MovesTo(p, "complete") /\ UNCHANGED <<path, backup, lock, admitted>>
  <2> HIDE DEF old
  <2>1. /\ db \in DatabaseRows /\ db.schema = old.schema /\ db.source = old.source /\ db.from = old.from
        /\ db.pending = old.pending /\ db.opened = old.opened /\ db.work = old.work /\ db.owners = {p}
        BY <1>3 DEF DatabaseRows
  <2> HIDE DEF db
  <2>2. Consistent(db) BY <1>3, <2>1 DEF Consistent
  <2>3. Stage(p, "complete", path, db, backup) BY <1>3, <2>1 DEF Stage, Upgraded, Upgrading
  <2>4. db.source # None \/ db.opened = FALSE => BackupIsFor(db, path) BY <1>3, <2>1 DEF BackupIsFor
  <2> QED BY <1>2, <1>5, <2>1, <2>2, <2>3, <2>4, OpeningWrites DEF old
<1> QED BY <1>4, <1>5 DEF RegisterBridgeInstance

--------------------------------------------------------------------------
(* Opening and restoring *)

\* A live bridge is on record in the database it serves.
LEMMA NobodyServes ==
    ASSUME Leased, NEW p \in Procs, proc[p].at = "locked", path # None, LiveOwners(disk[path], p) = {}
    PROVE  Servers = {}
<1> SUFFICES ASSUME NEW q \in Servers PROVE FALSE OBVIOUS
<1>1. q \in Procs /\ proc[q].at \in {"up", "serving"} BY DEF Servers
<1>2. q # p /\ IsAlive(q) BY <1>1 DEF IsAlive
<1>3. disk[path].owners = {q} BY DEF Leased, ServerOwns
<1> QED BY <1>2, <1>3 DEF LiveOwners

LEMMA AtLock ==
    ASSUME Leased, NEW p \in Procs, proc[p].at = "locked"
    PROVE  /\ p \in LeaseHolders /\ proc[p] \in ProcRows
           /\ path # None => /\ path \in DOMAIN disk /\ path \in Nat /\ disk[path] \in DatabaseRows
                             /\ Consistent(disk[path]) /\ disk = [disk EXCEPT ![path] = disk[path]]
                             /\ disk[path].source # None \/ disk[path].opened = FALSE => BackupIsFor(disk[path], path)
           /\ backup \in BackupRows \cup {None} /\ BackupIsOld
<1>1. p \in LeaseHolders BY DEF LeaseHolders
<1>2. disk \in Seq(DatabaseRows) /\ path \in DOMAIN disk \cup {None} BY DEF Leased, DatabaseTypeOK
<1> QED BY <1>1, <1>2 DEF Leased, DatabaseTypeOK

\* The holder goes on with a file it has created.
LEMMA NewFile ==
    ASSUME Leased, NEW p \in LeaseHolders, Servers = {}, path = None, ~admitted,
           NEW r \in ProcRows, proc' = [proc EXCEPT ![p] = r], r.at \in HoldingPlaces,
           NEW db \in DatabaseRows, Consistent(db), db.source = None, db.opened # FALSE,
           disk' = Append(disk, db), path' = Len(disk) + 1, UNCHANGED <<backup, lock, admitted>>,
           (/\ proc'[p] = r /\ disk'[path'] = db /\ Servers' = {} /\ path' \in DOMAIN disk' /\ path' # None
            /\ \A f \in DOMAIN disk : f \in DOMAIN disk' /\ disk'[f] = disk[f]) => StageHolds(p)'
    PROVE  Leased'
<1> USE DEF Leased
<1>1. proc \in [Procs -> ProcRows] /\ disk \in Seq(DatabaseRows) BY DEF DatabaseTypeOK
<1>2. p \in Procs /\ LeaseHolders = {p} /\ lock = p BY OneHolder
<1>3. proc'[p] = r /\ (\A q \in Procs \ {p} : proc'[q] = proc[q]) /\ proc' \in [Procs -> ProcRows] BY <1>1, <1>2
<1>4. LeaseHolders' = {p} BY <1>2, <1>3, HoldersHold
<1>5. Servers' = {}
  <2>1. r.at \notin {"up", "serving"} BY DEF HoldingPlaces, Upgrading, Restoring
  <2> QED BY <1>3, <2>1 DEF Servers
<1>6. /\ disk' \in Seq(DatabaseRows) /\ path' \in DOMAIN disk' /\ path' \in Nat /\ disk'[path'] = db
      /\ \A f \in DOMAIN disk : f \in DOMAIN disk' /\ disk'[f] = disk[f]
      /\ \A f \in DOMAIN disk' : f = path' \/ f \in DOMAIN disk
      BY <1>1
<1>7. DatabaseTypeOK' BY <1>3, <1>6 DEF DatabaseTypeOK
<1>8. LeaseIsLocked' /\ ServerOwns' BY <1>2, <1>4, <1>5 DEF LeaseIsLocked, ServerOwns
<1>9. path' # None BY <1>6, NoneIsNoFile
<1>10. \A q \in LeaseHolders' : StageHolds(q)' BY <1>3, <1>4, <1>5, <1>6, <1>9
<1>11. \A f \in DOMAIN disk' : Consistent(disk'[f]) BY <1>6
<1>12. BackupIsOld' BY DEF BackupIsOld
<1> QED BY <1>6, <1>7, <1>8, <1>9, <1>10, <1>11, <1>12

LEMMA OpenStep == ASSUME Leased, NEW p \in Procs, OpenDatabase(p) PROVE Leased'
<1>1. proc[p].at = "locked" BY DEF OpenDatabase, ProcessAt
<1>2. p \in LeaseHolders /\ proc[p] \in ProcRows BY <1>1, AtLock
<1>3. CASE Fails(p) BY <1>2, <1>3, FailsLeaves
<1>4. CASE ~Fails(p) /\ path # None
  <2> DEFINE db == disk[path]
             at == IF db.schema # CurrentSchema \/ db.pending # None THEN "claim" ELSE "register"
             r == [proc[p] EXCEPT !.file = path, !.at = at]
  <2>1. /\ proc' = [proc EXCEPT ![p] = r] /\ UNCHANGED <<disk, path, backup, lock, admitted>>
        /\ LiveOwners(disk[path], p) = {}
        BY <1>4 DEF OpenDatabase
  <2>2. Servers = {} BY <1>1, <1>4, <2>1, NobodyServes
  <2>3. /\ path \in DOMAIN disk /\ path \in Nat /\ db \in DatabaseRows /\ Consistent(db)
        /\ disk' = [disk EXCEPT ![path] = db]
        /\ db.source # None \/ db.opened = FALSE => BackupIsFor(db, path)
        /\ backup' \in BackupRows \cup {None} /\ BackupIsOld
        BY <1>1, <1>4, <2>1, AtLock
  <2>4. Stage(p, at, path, db, backup') BY <2>3 DEF Stage, Upgraded, Upgrading, Consistent
  <2>5. at \in {"claim", "register"} OBVIOUS
  <2> HIDE DEF db, at
  <2>6. r \in ProcRows /\ r.at = at /\ r.file = path
    <3>1. at \in Places BY <2>5 DEF Places
    <3> QED BY <1>2, <2>3, <3>1 DEF ProcRows
  <2> HIDE DEF r
  <2>7. r.at \in HoldingPlaces /\ r.at \notin Restoring BY <2>5, <2>6 DEF HoldingPlaces, Upgrading, Restoring
  <2>8. ASSUME proc'[p] = r, disk'[path] = db, Servers' = {}, DOMAIN disk' = DOMAIN disk PROVE StageHolds(p)'
    <3>1. path' = path /\ path \in DOMAIN disk BY <2>1, <2>3
    <3>2. r.at \notin {"place", "verify"} BY <2>7 DEF Restoring
    <3> QED BY <2>4, <2>6, <2>7, <2>8, <3>1, <3>2 DEF StageHolds
  <2>9. BackupIsOld' BY <2>1, <2>3 DEF BackupIsOld
  <2>10. db.work = disk[path].work BY DEF db
  <2>11. db.source # None \/ db.opened = FALSE => backup' # None /\ backup'.schema = db.from /\ backup'.file = path
         BY <2>1, <2>3 DEF BackupIsFor
  <2>12. UNCHANGED <<path, lock, admitted>> BY <2>1
  <2>13. proc' = [proc EXCEPT ![p] = r] BY <2>1
  <2> QED BY <1>2, <1>4, <2>2, <2>3, <2>6, <2>7, <2>8, <2>9, <2>10, <2>11, <2>12, <2>13, HolderWrites
<1>5. CASE ~Fails(p) /\ path = None
  <2> DEFINE r == [proc[p] EXCEPT !.file = path', !.at = "register"]
  <2>1. /\ proc' = [proc EXCEPT ![p] = r] /\ UNCHANGED <<backup, lock, admitted>>
        /\ disk' = Append(disk, Fresh) /\ path' = Len(disk) + 1
        BY <1>5 DEF OpenDatabase
  <2>2. Servers = {} /\ ~admitted BY <1>5 DEF Leased
  <2>3. path' \in Nat BY <2>1 DEF Leased, DatabaseTypeOK
  <2>4. /\ Fresh \in DatabaseRows /\ Fresh.schema = CurrentSchema /\ Fresh.pending = None /\ Fresh.source = None
        /\ Fresh.opened # FALSE /\ ~Fresh.work
        BY DatabaseAssumption, NoneIsNoFile DEF Fresh, Found, DatabaseRows
  <2>5. r \in ProcRows /\ r.at = "register" /\ r.file = path' BY <1>2, <2>3 DEF ProcRows, Places
  <2> HIDE DEF r
  <2>6. r.at \in HoldingPlaces /\ r.at \notin Restoring /\ r.at \notin Upgrading
        BY <2>5 DEF HoldingPlaces, Upgrading, Restoring
  <2>7. Consistent(Fresh) BY <2>4 DEF Consistent
  <2>8. ASSUME proc'[p] = r, disk'[path'] = Fresh, Servers' = {}, path' \in DOMAIN disk', path' # None
        PROVE  StageHolds(p)'
        BY <2>4, <2>5, <2>6, <2>8 DEF StageHolds, Stage, Upgraded
  <2> QED BY <1>2, <1>5, <2>1, <2>2, <2>4, <2>5, <2>6, <2>7, <2>8, NewFile
<1> QED BY <1>3, <1>4, <1>5

LEMMA CheckRestoreStep == ASSUME Leased, NEW p \in Procs, CheckRestore(p) PROVE Leased'
<1>1. proc[p].at = "locked" BY DEF CheckRestore, ProcessAt
<1>2. p \in LeaseHolders /\ proc[p] \in ProcRows BY <1>1, AtLock
<1>3. CASE Fails(p) BY <1>2, <1>3, FailsLeaves
<1>4. CASE ~Fails(p)
  <2> DEFINE db == disk[path]
             r == [proc[p] EXCEPT !.at = "aside", !.file = path]
  <2>1. /\ proc' = [proc EXCEPT ![p] = r] /\ UNCHANGED <<disk, path, backup, lock, admitted>>
        /\ path # None /\ Restorable(p, db)
        BY <1>4 DEF CheckRestore
  <2>2. Servers = {} BY <1>1, <2>1, NobodyServes DEF Restorable
  <2>3. /\ path \in DOMAIN disk /\ path \in Nat /\ db \in DatabaseRows /\ Consistent(db)
        /\ disk' = [disk EXCEPT ![path] = db]
        /\ backup' \in BackupRows \cup {None} /\ BackupIsOld
        BY <1>1, <2>1, AtLock
  <2>4. ~db.work /\ BackupIsFor(db, path) BY <2>1, <2>3 DEF Consistent, Restorable
  <2>5. ~admitted BY <2>4 DEF Leased
  <2> HIDE DEF db
  <2>6. r \in ProcRows /\ r.at = "aside" /\ r.file = path
    <3>1. "aside" \in Places BY DEF Places
    <3> QED BY <1>2, <2>3, <3>1 DEF ProcRows
  <2> HIDE DEF r
  <2>7. r.at \in HoldingPlaces BY <2>6 DEF HoldingPlaces, Restoring
  <2>8. ASSUME proc'[p] = r, disk'[path] = db, Servers' = {}, DOMAIN disk' = DOMAIN disk PROVE StageHolds(p)'
    <3>1. path' = path /\ path \in DOMAIN disk /\ backup' = backup /\ admitted' = admitted BY <2>1, <2>3
    <3>2. Stage(p, "aside", path, db, backup) BY DEF Stage, Upgrading
    <3> QED BY <2>4, <2>5, <2>6, <2>8, <3>1, <3>2 DEF StageHolds, BackupIsFor
  <2>9. BackupIsOld' BY <2>1, <2>3 DEF BackupIsOld
  <2>10. db.work = disk[path].work BY DEF db
  <2>11. backup' # None /\ backup'.schema = db.from /\ backup'.file = path
         BY <2>1, <2>4 DEF BackupIsFor
  <2>12. UNCHANGED <<path, lock, admitted>> BY <2>1
  <2> QED BY <1>2, <2>1, <2>2, <2>3, <2>6, <2>7, <2>8, <2>9, <2>10, <2>11, <2>12, HolderWrites
<1> QED BY <1>3, <1>4

LEMMA AtRestore ==
    ASSUME Leased, NEW p \in Procs, proc[p].at \in Restoring
    PROVE  /\ p \in LeaseHolders /\ proc[p] \in ProcRows /\ LeaseHolders = {p} /\ lock = p /\ Servers = {}
           /\ proc[p].file \in DOMAIN disk /\ proc[p].file \in Nat
           /\ ~admitted /\ ~disk[proc[p].file].work /\ BackupIsFor(disk[proc[p].file], proc[p].file)
           /\ proc[p].at = "place" => path = None
<1>1. p \in LeaseHolders BY HoldersHold DEF HoldingPlaces
<1>2. StageHolds(p) /\ proc[p] \in ProcRows /\ LeaseHolders = {p} /\ lock = p BY <1>1, OneHolder
<1>3. proc[p].at # "locked" BY DEF Restoring
<1>4. Servers = {} /\ proc[p].file \in DOMAIN disk BY <1>2, <1>3 DEF StageHolds
<1>5. disk \in Seq(DatabaseRows) BY DEF Leased, DatabaseTypeOK
<1>6. proc[p].file \in Nat BY <1>4, <1>5
<1> QED BY <1>1, <1>2, <1>4, <1>6 DEF StageHolds

LEMMA MoveAsideStep == ASSUME Leased, NEW p \in Procs, MoveAside(p) PROVE Leased'
<1> USE DEF Leased
<1> DEFINE r == [proc[p] EXCEPT !.at = "place"]
<1>1. proc[p].at = "aside" /\ path' = None /\ UNCHANGED <<disk, backup, lock, admitted>> BY DEF MoveAside
<1>2. proc[p].at \in Restoring BY <1>1 DEF Restoring
<1>3. r \in ProcRows /\ r.at = "place" /\ r.file = proc[p].file /\ proc' = [proc EXCEPT ![p] = r]
  <2>1. "place" \in Places BY DEF Places
  <2> QED BY <2>1, At DEF MoveAside
<1> HIDE DEF r
<1>4. proc \in [Procs -> ProcRows] BY DEF DatabaseTypeOK
<1>5. proc'[p] = r /\ (\A q \in Procs \ {p} : proc'[q] = proc[q]) /\ proc' \in [Procs -> ProcRows] BY <1>3, <1>4
<1>6. "place" \in HoldingPlaces BY DEF HoldingPlaces, Restoring
<1>7. LeaseHolders' = {p} BY <1>2, <1>3, <1>5, <1>6, AtRestore, HoldersHold
<1>8. Servers' = {} BY <1>2, <1>3, <1>5, AtRestore DEF Servers
<1>9. DatabaseTypeOK' BY <1>1, <1>5 DEF DatabaseTypeOK
<1>10. LeaseIsLocked' /\ ServerOwns' BY <1>1, <1>2, <1>7, <1>8, AtRestore DEF LeaseIsLocked, ServerOwns
<1>11. StageHolds(p)'
  <2>1. Stage(p, "place", proc[p].file, disk[proc[p].file], backup) BY DEF Stage, Upgrading
  <2>2. "place" \notin Upgrading BY DEF Upgrading
  <2> QED BY <1>1, <1>2, <1>3, <1>5, <1>8, <2>1, <2>2, AtRestore DEF StageHolds, BackupIsFor
<1>12. BackupIsOld' BY <1>1 DEF BackupIsOld
<1>13. ~admitted' BY <1>1, <1>2, AtRestore
<1> QED BY <1>1, <1>7, <1>8, <1>9, <1>10, <1>11, <1>12, <1>13

LEMMA PlaceStep == ASSUME Leased, NEW p \in Procs, PlaceSnapshot(p) PROVE Leased'
<1> DEFINE r == [proc[p] EXCEPT !.at = "verify"]
           db == backup.content
           file == proc[p].file
<1>1. /\ proc[p].at = "place" /\ UNCHANGED <<backup, lock, admitted>>
      /\ disk' = Append(disk, db) /\ path' = Len(disk) + 1
      BY DEF PlaceSnapshot
<1>2. proc[p].at \in Restoring BY <1>1 DEF Restoring
<1>3. r \in ProcRows /\ r.at = "verify" /\ r.file = file /\ proc' = [proc EXCEPT ![p] = r]
  <2>1. "verify" \in Places BY DEF Places
  <2> QED BY <2>1, At DEF PlaceSnapshot
<1>4. /\ p \in LeaseHolders /\ Servers = {} /\ path = None /\ ~admitted
      /\ file \in DOMAIN disk /\ ~disk[file].work /\ BackupIsFor(disk[file], file)
      BY <1>1, <1>2, AtRestore
<1>5. backup \in BackupRows /\ BackupIsOld /\ backup # None BY <1>4 DEF Leased, DatabaseTypeOK, BackupIsFor
<1>6. db \in DatabaseRows /\ Consistent(db) /\ db.source = None /\ db.opened # FALSE
      BY <1>5 DEF BackupRows, BackupIsOld, Consistent
<1> HIDE DEF r, db, file
<1>7. r.at \in HoldingPlaces BY <1>3 DEF HoldingPlaces, Restoring
<1>8. ASSUME proc'[p] = r, Servers' = {}, path' # None,
             \A f \in DOMAIN disk : f \in DOMAIN disk' /\ disk'[f] = disk[f]
      PROVE  StageHolds(p)'
  <2>1. Stage(p, "verify", file, disk[file], backup) BY DEF Stage, Upgrading
  <2>2. "verify" \notin Upgrading BY DEF Upgrading
  <2> QED BY <1>1, <1>3, <1>4, <1>8, <2>1, <2>2 DEF StageHolds, BackupIsFor
<1> QED BY <1>1, <1>3, <1>4, <1>6, <1>7, <1>8, NewFile

LEMMA RestoreFailsStep == ASSUME Leased, NEW p \in Procs, RestoreFails(p) PROVE Leased'
<1> USE DEF Leased
<1> DEFINE r == [proc[p] EXCEPT !.at = "gone"]
           file == proc[p].file
<1>1. path' = file /\ UNCHANGED <<disk, backup, admitted>> BY DEF RestoreFails
<1>2. proc[p].at \in Restoring BY DEF RestoreFails, Restoring
<1>3. r \in ProcRows /\ r.at = "gone" /\ proc' = [proc EXCEPT ![p] = r]
  <2>1. "gone" \in Places BY DEF Places
  <2> QED BY <2>1, At DEF RestoreFails
<1> HIDE DEF r
<1>4. proc \in [Procs -> ProcRows] BY DEF DatabaseTypeOK
<1>5. proc'[p] = r /\ (\A q \in Procs \ {p} : proc'[q] = proc[q]) /\ proc' \in [Procs -> ProcRows] BY <1>3, <1>4
<1>6. /\ LeaseHolders = {p} /\ lock = p /\ Servers = {} /\ ~admitted
      /\ file \in DOMAIN disk /\ file \in Nat /\ BackupIsFor(disk[file], file)
      BY <1>2, AtRestore
<1> HIDE DEF file
<1>7. LeaseHolders' = {}
  <2>1. "gone" \notin HoldingPlaces BY DEF HoldingPlaces, Upgrading, Restoring
  <2> QED BY <1>3, <1>5, <1>6, <2>1, HoldersHold
<1>8. Servers' = {} BY <1>3, <1>5, <1>6 DEF Servers
<1>9. lock' = None BY <1>6 DEF RestoreFails, Released
<1>10. DatabaseTypeOK' BY <1>1, <1>5, <1>6, <1>9 DEF DatabaseTypeOK
<1>11. LeaseIsLocked' /\ ServerOwns' BY <1>7, <1>8 DEF LeaseIsLocked, ServerOwns
<1>12. BackupIsOld' BY <1>1 DEF BackupIsOld
<1>13. BackupIsFor(disk[path], path)' BY <1>1, <1>6 DEF BackupIsFor
<1>14. path' # None BY <1>1, <1>6, NoneIsNoFile
<1> QED BY <1>1, <1>6, <1>7, <1>8, <1>10, <1>11, <1>12, <1>13, <1>14

--------------------------------------------------------------------------
(* Serving *)

LEMMA AtService ==
    ASSUME Leased, NEW p \in Servers
    PROVE  /\ p \in Procs /\ Servers = {p} /\ proc[p] \in ProcRows /\ proc[p].file = path /\ Mine(p) = disk[path]
           /\ path # None /\ path \in DOMAIN disk /\ Mine(p) \in DatabaseRows /\ Consistent(Mine(p))
           /\ Mine(p).owners = {p} /\ Upgraded(Mine(p))
           /\ proc[p].at = "serving" => Mine(p).opened # FALSE
           /\ Mine(p).source # None \/ Mine(p).opened = FALSE => BackupIsFor(Mine(p), path)
           /\ admitted => Mine(p).work
           /\ \A q \in LeaseHolders : proc[q].at = "locked"
<1>1. \A q \in Servers : proc[q].file = path /\ path # None /\ disk[path].owners = {q} /\ Upgraded(disk[path])
      BY DEF Leased, ServerOwns
<1>2. Servers = {p}
  <2>1. ASSUME NEW q \in Servers PROVE q = p
    <3>1. {q} = {p} BY <1>1
    <3> QED BY <3>1
  <2> QED BY <2>1
<1>3. p \in Procs BY DEF Servers
<1>4. disk \in Seq(DatabaseRows) /\ path \in DOMAIN disk BY <1>1 DEF Leased, DatabaseTypeOK
<1>5. \A q \in LeaseHolders : proc[q].at = "locked" BY DEF Leased, StageHolds
<1>6. proc[p] \in ProcRows BY <1>3 DEF Leased, DatabaseTypeOK
<1>7. Mine(p) = disk[path] /\ disk[path] \in DatabaseRows BY <1>1, <1>4 DEF Mine
<1> QED BY <1>1, <1>2, <1>3, <1>4, <1>5, <1>6, <1>7 DEF Leased, ServerOwns

\* The service writes its database; a restore or another start waits for the lease only.
LEMMA ServerWrites ==
    ASSUME Leased, NEW p \in Servers, NEW at \in {"up", "serving", "gone"}, MovesTo(p, at),
           NEW db \in DatabaseRows, Write(p, db), Consistent(db),
           db.source # None \/ db.opened = FALSE => BackupIsFor(db, path),
           at # "gone" => db.owners = {p} /\ Upgraded(db),
           at = "serving" => db.opened # FALSE,
           admitted' \in BOOLEAN, admitted' => db.work, UNCHANGED <<path, backup, lock>>
    PROVE  Leased'
<1> USE DEF Leased
<1> DEFINE r == [proc[p] EXCEPT !.at = at]
<1>1. /\ p \in Procs /\ Servers = {p} /\ proc[p].file = path /\ path # None /\ path \in DOMAIN disk
      /\ \A q \in LeaseHolders : proc[q].at = "locked"
      BY AtService
<1>2. r \in ProcRows /\ r.at = at /\ r.file = path /\ proc' = [proc EXCEPT ![p] = r]
  <2>1. at \in Places BY DEF Places
  <2> QED BY <1>1, <2>1, At
<1> HIDE DEF r
<1>3. proc \in [Procs -> ProcRows] /\ disk \in Seq(DatabaseRows) BY DEF DatabaseTypeOK
<1>4. proc'[p] = r /\ (\A q \in Procs \ {p} : proc'[q] = proc[q]) /\ proc' \in [Procs -> ProcRows]
      BY <1>1, <1>2, <1>3
<1>5. /\ disk' \in Seq(DatabaseRows) /\ DOMAIN disk' = DOMAIN disk /\ disk'[path] = db
      /\ \A f \in DOMAIN disk : f # path => disk'[f] = disk[f]
      BY <1>1, <1>3 DEF Write
<1>6. p \notin LeaseHolders /\ p \notin LeaseHolders'
  <2>1. at \notin HoldingPlaces BY DEF HoldingPlaces, Upgrading, Restoring
  <2>2. p \notin LeaseHolders BY <1>1 DEF Servers
  <2> QED BY <1>2, <1>4, <2>1, <2>2, HoldersHold
<1>7. LeaseHolders' = LeaseHolders BY <1>4, <1>6, HoldersHold
<1>8. Servers' = IF at = "gone" THEN {} ELSE {p} BY <1>1, <1>2, <1>4 DEF Servers
<1>9. DatabaseTypeOK' BY <1>4, <1>5 DEF DatabaseTypeOK
<1>10. LeaseIsLocked' BY <1>7 DEF LeaseIsLocked
<1>11. ServerOwns' BY <1>1, <1>2, <1>4, <1>5, <1>8 DEF ServerOwns, Upgraded
<1>12. \A q \in LeaseHolders' : StageHolds(q)'
  <2> TAKE q \in LeaseHolders'
  <2>1. q \in LeaseHolders /\ q \in Procs \ {p} BY <1>6, <1>7 DEF LeaseHolders
  <2>2. proc'[q].at = "locked" BY <1>1, <1>4, <2>1
  <2> QED BY <2>2 DEF StageHolds, Stage, Upgrading, Restoring
<1>13. \A f \in DOMAIN disk' : Consistent(disk'[f]) BY <1>5
<1>14. BackupIsOld' BY DEF BackupIsOld
<1> QED BY <1>1, <1>5, <1>9, <1>10, <1>11, <1>12, <1>13, <1>14 DEF BackupIsFor

LEMMA MarkStep == ASSUME Leased, NEW p \in Procs, MarkServiceOpen(p) PROVE Leased'
<1> DEFINE old == Mine(p)
           db == IF old.opened = None THEN old ELSE [old EXCEPT !.opened = TRUE]
<1>1. p \in Servers BY DEF MarkServiceOpen, Servers
<1>2. /\ old \in DatabaseRows /\ Consistent(old) /\ old.owners = {p} /\ Upgraded(old)
      /\ old.source # None \/ old.opened = FALSE => BackupIsFor(old, path)
      /\ admitted => old.work
      BY <1>1, AtService
<1>3. MovesTo(p, "serving") /\ Write(p, db) /\ UNCHANGED <<path, backup, lock, admitted>> BY DEF MarkServiceOpen
<1> HIDE DEF old
<1>4. /\ db \in DatabaseRows /\ db.schema = old.schema /\ db.source = old.source /\ db.from = old.from
      /\ db.pending = old.pending /\ db.opened # FALSE /\ db.work = old.work /\ db.owners = old.owners
      BY <1>2, NoneIsNoFile DEF DatabaseRows
<1> HIDE DEF db
<1>5. Consistent(db) BY <1>2, <1>4 DEF Consistent
<1>6. db.owners = {p} /\ Upgraded(db) BY <1>2, <1>4 DEF Upgraded
<1>7. db.source # None => BackupIsFor(db, path) BY <1>2, <1>4 DEF BackupIsFor
<1>8. admitted' \in BOOLEAN BY <1>3 DEF Leased, DatabaseTypeOK
<1> QED BY <1>1, <1>2, <1>3, <1>4, <1>5, <1>6, <1>7, <1>8, ServerWrites

LEMMA AdmitStep == ASSUME Leased, NEW p \in Procs, AdmitFirstWork(p) PROVE Leased'
<1> DEFINE old == Mine(p)
           db == [old EXCEPT !.work = TRUE]
<1>1. p \in Servers /\ proc[p].at = "serving" BY DEF AdmitFirstWork, Servers
<1>2. /\ old \in DatabaseRows /\ Consistent(old) /\ old.owners = {p} /\ Upgraded(old) /\ old.opened # FALSE
      /\ old.source # None \/ old.opened = FALSE => BackupIsFor(old, path)
      BY <1>1, AtService
<1>3. MovesTo(p, "serving")
  <2>1. proc \in [Procs -> ProcRows] BY DEF Leased, DatabaseTypeOK
  <2>2. proc[p] \in ProcRows BY <2>1
  <2>3. [proc[p] EXCEPT !.at = "serving"] = proc[p] BY <1>1, <2>2 DEF ProcRows
  <2>4. proc' = proc BY DEF AdmitFirstWork
  <2> QED BY <2>1, <2>3, <2>4 DEF MovesTo
<1>4. Write(p, db) /\ admitted' = TRUE /\ UNCHANGED <<path, backup, lock>> BY DEF AdmitFirstWork
<1> HIDE DEF old
<1>5. /\ db \in DatabaseRows /\ db.schema = old.schema /\ db.source = old.source /\ db.from = old.from
      /\ db.pending = old.pending /\ db.opened = old.opened /\ db.work /\ db.owners = old.owners
      BY <1>2 DEF DatabaseRows
<1> HIDE DEF db
<1>6. Consistent(db) BY <1>2, <1>5 DEF Consistent, Upgraded
<1>7. db.owners = {p} /\ Upgraded(db) BY <1>2, <1>5 DEF Upgraded
<1>8. db.source # None => BackupIsFor(db, path) BY <1>2, <1>5 DEF BackupIsFor
<1> QED BY <1>1, <1>2, <1>3, <1>4, <1>5, <1>6, <1>7, <1>8, ServerWrites

LEMMA CloseStep == ASSUME Leased, NEW p \in Procs, CloseStore(p) PROVE Leased'
<1> DEFINE old == Mine(p)
           db == [old EXCEPT !.owners = old.owners \ {p}]
<1>1. p \in Servers BY DEF CloseStore, Servers
<1>2. /\ old \in DatabaseRows /\ Consistent(old)
      /\ old.source # None \/ old.opened = FALSE => BackupIsFor(old, path)
      /\ admitted => old.work
      BY <1>1, AtService
<1>3. MovesTo(p, "gone") /\ Write(p, db) /\ UNCHANGED <<path, backup, lock, admitted>> BY DEF CloseStore
<1> HIDE DEF old
<1>4. /\ db \in DatabaseRows /\ db.schema = old.schema /\ db.source = old.source /\ db.from = old.from
      /\ db.pending = old.pending /\ db.opened = old.opened /\ db.work = old.work
      BY <1>2 DEF DatabaseRows
<1> HIDE DEF db
<1>5. Consistent(db) BY <1>2, <1>4 DEF Consistent
<1>6. db.source # None \/ db.opened = FALSE => BackupIsFor(db, path) BY <1>2, <1>4 DEF BackupIsFor
<1>7. admitted' \in BOOLEAN BY <1>3 DEF Leased, DatabaseTypeOK
<1> QED BY <1>1, <1>2, <1>3, <1>4, <1>5, <1>6, <1>7, ServerWrites

\* The start gives the lease back and is the one bridge that is up.
LEMMA CompleteStep == ASSUME Leased, NEW p \in Procs, CompleteOpen(p) PROVE Leased'
<1> USE DEF Leased
<1> DEFINE r == [proc[p] EXCEPT !.at = "up"]
<1>1. proc[p].at = "complete" /\ UNCHANGED <<disk, path, backup, admitted>> BY DEF CompleteOpen
<1>2. p \in LeaseHolders /\ LeaseHolders = {p} /\ lock = p /\ StageHolds(p)
  <2>1. p \in LeaseHolders BY <1>1 DEF LeaseHolders
  <2> QED BY <2>1, OneHolder
<1>3. r \in ProcRows /\ r.at = "up" /\ r.file = proc[p].file /\ proc' = [proc EXCEPT ![p] = r]
  <2>1. "up" \in Places BY DEF Places
  <2> QED BY <2>1, At DEF CompleteOpen
<1> HIDE DEF r
<1>4. proc \in [Procs -> ProcRows] BY DEF DatabaseTypeOK
<1>5. proc'[p] = r /\ (\A q \in Procs \ {p} : proc'[q] = proc[q]) /\ proc' \in [Procs -> ProcRows] BY <1>3, <1>4
<1>6. /\ Servers = {} /\ proc[p].file = path /\ path \in DOMAIN disk
      /\ Upgraded(disk[path]) /\ disk[path].owners = {p}
      BY <1>1, <1>2 DEF StageHolds, Stage
<1>7. path # None
  <2>1. path \in Nat BY <1>6 DEF DatabaseTypeOK
  <2> QED BY <2>1, NoneIsNoFile
<1>8. LeaseHolders' = {}
  <2>1. "up" \notin HoldingPlaces BY DEF HoldingPlaces, Upgrading, Restoring
  <2> QED BY <1>2, <1>3, <1>5, <2>1, HoldersHold
<1>9. Servers' = {p} BY <1>3, <1>5, <1>6 DEF Servers
<1>10. lock' = None BY <1>2 DEF CompleteOpen, Released
<1>11. DatabaseTypeOK' BY <1>1, <1>5, <1>10 DEF DatabaseTypeOK
<1>12. LeaseIsLocked' BY <1>8 DEF LeaseIsLocked
<1>13. ServerOwns' BY <1>1, <1>3, <1>5, <1>6, <1>7, <1>9 DEF ServerOwns, Upgraded
<1>14. BackupIsOld' BY <1>1 DEF BackupIsOld
<1> QED BY <1>1, <1>7, <1>8, <1>11, <1>12, <1>13, <1>14 DEF BackupIsFor

--------------------------------------------------------------------------

LEMMA DatabaseStep == DatabaseInv /\ [DatabaseNext]_databaseVars => DatabaseInv'
<1> SUFFICES ASSUME DatabaseInv, [DatabaseNext]_databaseVars PROVE DatabaseInv' OBVIOUS
<1>1. CASE UNCHANGED databaseVars
  <2>1. UNCHANGED <<disk, path, backup, lock, proc, admitted, raced>> BY <1>1 DEF databaseVars
  <2>2. Leased <=> Leased'
    <3>1. Servers' = Servers /\ LeaseHolders' = LeaseHolders BY <2>1 DEF Servers, LeaseHolders
    <3>2. DatabaseTypeOK <=> DatabaseTypeOK' BY <2>1 DEF DatabaseTypeOK
    <3>3. BackupIsOld <=> BackupIsOld' BY <2>1 DEF BackupIsOld
    <3>4. ServerOwns <=> ServerOwns' BY <2>1, <3>1 DEF ServerOwns
    <3>5. LeaseIsLocked <=> LeaseIsLocked' BY <2>1, <3>1 DEF LeaseIsLocked
    <3>6. \A p \in LeaseHolders : StageHolds(p) <=> StageHolds(p)' BY <2>1, <3>1 DEF StageHolds, BackupIsFor
    <3> QED BY <2>1, <3>1, <3>2, <3>3, <3>4, <3>5, <3>6 DEF Leased, BackupIsFor
  <2> QED BY <2>1, <2>2 DEF DatabaseInv
<1>2. ASSUME NEW p \in Procs, RemoveStaleLock(p) PROVE DatabaseInv'
  <2>1. raced' = (raced \/ (lock # None /\ IsAlive(lock))) BY <1>2 DEF RemoveStaleLock
  <2> QED BY <1>2, <2>1, RemoveStaleStep DEF DatabaseInv
<1>3. ASSUME NEW p \in Procs,
             \/ \E kind \in {"bridge", "restore"} : Launch(p, kind)
             \/ TakeLock(p) \/ CheckRestore(p) \/ MoveAside(p) \/ PlaceSnapshot(p)
             \/ RestoreReturns(p) \/ RestoreFails(p) \/ ProcessEnds(p)
      PROVE  DatabaseInv'
  <2>1. raced' = raced
        BY <1>3 DEF Launch, TakeLock, CheckRestore, Fails, MoveAside, PlaceSnapshot, RestoreReturns, RestoreFails,
                    ProcessEnds
  <2>2. ASSUME Leased PROVE Leased'
    <3>1. CASE RestoreReturns(p)
      <4>1. p \in LeaseHolders BY <3>1 DEF RestoreReturns, LeaseHolders
      <4> QED BY <2>2, <3>1, <4>1, LeavesStep DEF RestoreReturns
    <3>2. CASE ProcessEnds(p) BY <2>2, <3>2, LeavesStep DEF ProcessEnds
    <3> QED BY <1>3, <2>2, <3>1, <3>2, LaunchStep, TakeLockStep, CheckRestoreStep, MoveAsideStep, PlaceStep,
               RestoreFailsStep
  <2> QED BY <2>1, <2>2 DEF DatabaseInv
<1>4. ASSUME NEW p \in Procs,
             \/ OpenDatabase(p) \/ ClaimExclusive(p) \/ PrepareMigration(p)
             \/ CreateMigrationBackup(p) \/ RecordSource(p) \/ ReconcilePending(p)
             \/ RecordPending(p) \/ Migrate(p) \/ FinalizeMigration(p) \/ ReopenAfterMigration(p)
      PROVE  DatabaseInv'
  <2>1. raced' = raced
        BY <1>4 DEF OpenDatabase, ClaimExclusive, PrepareMigration, CreateMigrationBackup, RecordSource, Fails,
                    ReconcilePending, RecordPending, Migrate, FinalizeMigration, ReopenAfterMigration
  <2>2. ASSUME Leased PROVE Leased'
        BY <1>4, <2>2, OpenStep, ClaimStep, PrepareStep, BackupStep, SourceStep, ReconcileStep, PendingStep,
           MigrateStep, FinalizeStep, ReopenStep
  <2> QED BY <2>1, <2>2 DEF DatabaseInv
<1>5. ASSUME NEW p \in Procs,
             RegisterBridgeInstance(p) \/ CompleteOpen(p) \/ MarkServiceOpen(p) \/ AdmitFirstWork(p) \/ CloseStore(p)
      PROVE  DatabaseInv'
  <2>1. raced' = raced
        BY <1>5 DEF RegisterBridgeInstance, Fails, CompleteOpen, MarkServiceOpen, AdmitFirstWork, CloseStore
  <2>2. ASSUME Leased PROVE Leased'
        BY <1>5, <2>2, RegisterStep, CompleteStep, MarkStep, AdmitStep, CloseStep
  <2> QED BY <2>1, <2>2 DEF DatabaseInv
<1> QED BY <1>1, <1>2, <1>3, <1>4, <1>5 DEF DatabaseNext

LEMMA DatabaseStart == DatabaseInit => DatabaseInv
<1> SUFFICES ASSUME DatabaseInit PROVE DatabaseInv OBVIOUS
<1> USE NoneIsNoFile, DatabaseAssumption
<1>1. /\ disk = <<Found>> /\ path = 1 /\ backup = None /\ lock = None /\ admitted = FALSE /\ raced = FALSE
      /\ proc = [p \in Procs |-> [at |-> "new", kind |-> None, saw |-> None, file |-> None, tries |-> 0]]
      BY DEF DatabaseInit
<1>2. /\ Found \in DatabaseRows /\ Found.schema = 1 /\ Found.source = None /\ Found.pending = None
      /\ Found.opened # FALSE /\ ~Found.work
      BY DEF Found, DatabaseRows
<1>3. disk \in Seq(DatabaseRows) /\ DOMAIN disk = {1} /\ disk[path] = Found BY <1>1, <1>2
<1>4. LeaseHolders = {} /\ Servers = {} BY <1>1 DEF LeaseHolders, Servers
<1>5. DatabaseTypeOK
  <2>1. [at |-> "new", kind |-> None, saw |-> None, file |-> None, tries |-> 0] \in ProcRows BY DEF ProcRows, Places
  <2> QED BY <1>1, <1>3, <2>1 DEF DatabaseTypeOK
<1>6. Consistent(Found) BY <1>2 DEF Consistent
<1>7. BackupIsOld /\ ServerOwns /\ LeaseIsLocked BY <1>1, <1>4 DEF BackupIsOld, ServerOwns, LeaseIsLocked
<1> QED BY <1>1, <1>2, <1>3, <1>4, <1>5, <1>6, <1>7 DEF DatabaseInv, Leased

\* From the first record of an upgrade until a service opens the upgraded
\* database, its recovery point is there, whatever crashed or was retried on the
\* way (prepareV19Migration, reconcilePendingMigration, restoreStateDatabase),
\* unless the lock of a live process was removed as stale.
THEOREM RecoveryPointIsThere == DatabaseSpec => []RecoveryPointKept
<1>1. DatabaseInv => RecoveryPointKept
  <2> SUFFICES ASSUME DatabaseInv, ~raced, path # None, disk[path].source # None \/ disk[path].opened = FALSE
               PROVE  BackupIsFor(disk[path], path) /\ backup.content.source = None
      BY DEF RecoveryPointKept
  <2>1. BackupIsFor(disk[path], path) /\ BackupIsOld BY DEF DatabaseInv, Leased
  <2> QED BY <2>1 DEF BackupIsFor, BackupIsOld
<1> QED BY <1>1, DatabaseStart, DatabaseStep, PTL DEF DatabaseSpec

\* A restore never discards work that a service has admitted: between the check
\* of the boundary and the replacement no service opens (restoreStateDatabase,
\* markServiceOpen), unless the lock of a live process was removed as stale.
THEOREM AdmittedWorkStays == DatabaseSpec => []AdmittedIsKept
<1>1. DatabaseInv => AdmittedIsKept BY DEF DatabaseInv, Leased, AdmittedIsKept
<1> QED BY <1>1, DatabaseStart, DatabaseStep, PTL DEF DatabaseSpec

\* Two processes act as the owner of the lease only after one of them has
\* removed, as stale, a lock that a live process had taken in the meantime
\* (acquireMigrationLock): nothing else breaks the mutual exclusion.
THEOREM OneOwnerUnlessRaced == DatabaseSpec => [](~raced => OneLeaseHolder)
<1>1. DatabaseInv => (~raced => OneLeaseHolder) BY DEF DatabaseInv, Leased, LeaseIsLocked, OneLeaseHolder
<1> QED BY <1>1, DatabaseStart, DatabaseStep, PTL DEF DatabaseSpec

--------------------------------------------------------------------------
(* The bounded queue *)

Before(q, x, y) == \E i, j \in DOMAIN q : i < j /\ q[i] = x /\ q[j] = y
Distinct(q) == \A i, j \in DOMAIN q : q[i] = q[j] => i = j

QueueTypeOK ==
    /\ Present \subseteq Scopes /\ queues = [s \in Present |-> queues[s]]
    /\ \A s \in Present : queues[s] \in Seq(Nat)
    /\ order \in Seq(Scopes) /\ overtaken \subseteq Scopes \X Scopes
    /\ queued \in Int /\ offered \in Nat /\ scheduled \in BOOLEAN

\* Whoever was overtaken waits, and before the scope that overtook it.
OvertakenIsFirst ==
    \A p \in overtaken : p[1] \in Present /\ (p[2] \in Present => Before(order, p[1], p[2]))

QueueInv == QueueTypeOK /\ NothingStranded /\ OvertakenIsFirst

\* Every natural number is in a set that has 0 and, with a number, the next.
LEMMA SetInduction ==
    ASSUME NEW S, 0 \in S, \A n \in Nat : n \in S => n + 1 \in S
    PROVE  Nat \subseteq S
<1> SUFFICES ASSUME NEW m \in Nat, m \notin S PROVE FALSE OBVIOUS
<1> DEFINE T == Nat \ S
<1>1. T \subseteq Nat /\ T # {} OBVIOUS
<1>2. IsWellFoundedOn(OpToRel(<, Nat), Nat) BY NatLessThanWellFounded
<1>3. PICK x \in T : \A y \in T : ~(<<y, x>> \in OpToRel(<, Nat)) BY <1>1, <1>2, WFMin
<1>4. x \in Nat /\ x \notin S BY <1>3
<1>5. \A y \in T : ~(y < x) BY <1>1, <1>3 DEF OpToRel
<1>6. x # 0 BY <1>4
<1>7. x - 1 \in Nat /\ x - 1 < x /\ x = (x - 1) + 1 BY <1>4, <1>6
<1>8. x - 1 \in S BY <1>5, <1>7
<1> QED BY <1>4, <1>7, <1>8

\* What Filtered says of one prefix from the prefix before it.
Taken(q, S, f, n) == IF n = 0 THEN <<>> ELSE IF q[n] \in S THEN Append(f[n - 1], q[n]) ELSE f[n - 1]

\* The recursion of Filtered defines a function.
LEMMA FilteredIsDefined ==
    ASSUME NEW T, NEW q \in Seq(T), NEW S
    PROVE  Filtered(q, S) = [n \in 0 .. Len(q) |-> Taken(q, S, Filtered(q, S), n)]
<1> DEFINE Fits(f, m) == f = [n \in 0 .. m |-> Taken(q, S, f, n)]
           D == {m \in Nat : \E f : Fits(f, m)}
<1>1. 0 \in D
  <2> DEFINE f == [n \in 0 .. 0 |-> <<>>]
  <2>1. Fits(f, 0) BY DEF Taken
  <2> HIDE DEF f, Fits
  <2> QED BY <2>1
<1>2. ASSUME NEW m \in Nat, m \in D PROVE m + 1 \in D
  <2>1. PICK f : Fits(f, m) BY <1>2
  <2> DEFINE g == [n \in 0 .. m + 1 |-> IF n <= m THEN f[n] ELSE Taken(q, S, f, n)]
  <2>2. \A n \in 0 .. m + 1 : g[n] = Taken(q, S, g, n)
    <3> TAKE n \in 0 .. m + 1
    <3>1. n # 0 => n - 1 \in 0 .. m /\ g[n - 1] = f[n - 1] OBVIOUS
    <3>2. Taken(q, S, g, n) = Taken(q, S, f, n)
      <4> HIDE DEF g
      <4> QED BY <3>1 DEF Taken
    <3>3. n <= m => f[n] = Taken(q, S, f, n)
      <4> SUFFICES ASSUME n <= m PROVE f[n] = Taken(q, S, f, n) OBVIOUS
      <4>1. n \in 0 .. m OBVIOUS
      <4> QED BY <2>1, <4>1
    <3>4. g[n] = IF n <= m THEN f[n] ELSE Taken(q, S, f, n) OBVIOUS
    <3> HIDE DEF g
    <3> QED BY <3>2, <3>3, <3>4
  <2>3. g = [n \in 0 .. m + 1 |-> Taken(q, S, g, n)]
    <3>1. g = [n \in 0 .. m + 1 |-> g[n]] OBVIOUS
    <3> HIDE DEF g
    <3> QED BY <2>2, <3>1
  <2>4. Fits(g, m + 1)
    <3> HIDE DEF g
    <3> QED BY <2>3
  <2> HIDE DEF g, Fits
  <2> QED BY <2>4
<1>3. Nat \subseteq D
  <2> HIDE DEF D
  <2> QED BY <1>1, <1>2, SetInduction
<1>4. \E f : Fits(f, Len(q)) BY <1>3
<1>5. Filtered(q, S) = CHOOSE f : Fits(f, Len(q)) BY DEF Filtered, Taken
<1>6. Fits(Filtered(q, S), Len(q))
  <2> HIDE DEF Fits
  <2> QED BY <1>4, <1>5
<1> QED BY <1>6

\* o is what S keeps of the first n of q: e says from which place each comes.
Picks(e, o, q, n, S) ==
    /\ e \in [DOMAIN o -> 1 .. n]
    /\ \A k, l \in DOMAIN o : k < l => e[k] < e[l]
    /\ \A k \in DOMAIN o : o[k] = q[e[k]] /\ o[k] \in S
    /\ \A i \in 1 .. n : q[i] \in S => \E k \in DOMAIN o : e[k] = i

LEMMA KeepPicks ==
    ASSUME NEW T, NEW q \in Seq(T), NEW S
    PROVE  Keep(q, S) \in Seq(T) /\ \E e : Picks(e, Keep(q, S), q, Len(q), S)
<1> DEFINE f == Filtered(q, S)
           Good(n) == f[n] \in Seq(T) /\ \E e : Picks(e, f[n], q, n, S)
           D == {n \in Nat : n <= Len(q) => Good(n)}
<1>1. \A n \in 0 .. Len(q) : f[n] = Taken(q, S, f, n) BY FilteredIsDefined
<1> HIDE DEF f
<1>2. 0 \in D
  <2>1. f[0] = <<>> BY <1>1 DEF Taken
  <2>2. Picks(<<>>, <<>>, q, 0, S) BY DEF Picks
  <2>3. f[0] \in Seq(T) /\ Picks(<<>>, f[0], q, 0, S) BY <2>1, <2>2
  <2>4. Good(0) BY <2>3
  <2> QED BY <2>4
<1>3. ASSUME NEW n \in Nat, n \in D PROVE n + 1 \in D
  <2> SUFFICES ASSUME n + 1 <= Len(q) PROVE Good(n + 1) OBVIOUS
  <2>1. Good(n) BY <1>3
  <2>2. PICK e : Picks(e, f[n], q, n, S) BY <2>1
  <2> DEFINE o == f[n]
             x == q[n + 1]
  <2>3. o \in Seq(T) /\ x \in T BY <2>1
  <2>4. f[n + 1] = IF x \in S THEN Append(o, x) ELSE o
    <3>1. (n + 1) - 1 = n /\ n + 1 # 0 /\ n + 1 \in 0 .. Len(q) OBVIOUS
    <3>2. f[n + 1] = Taken(q, S, f, n + 1) BY <1>1, <3>1
    <3> QED BY <3>1, <3>2 DEF Taken
  <2>5. CASE x \notin S
    <3>1. f[n + 1] = o BY <2>4, <2>5
    <3>2. Picks(e, o, q, n + 1, S)
      <4>1. \A i \in 1 .. n + 1 : q[i] \in S => i \in 1 .. n BY <2>5
      <4>2. \A k \in DOMAIN o : e[k] \in 1 .. n + 1 BY <2>2 DEF Picks
      <4> HIDE DEF o, x
      <4> QED BY <2>2, <4>1, <4>2 DEF Picks, o
    <3> QED BY <2>3, <3>1, <3>2
  <2>6. CASE x \in S
    <3> DEFINE m == Len(o) + 1
               new == Append(o, x)
               en == [k \in 1 .. m |-> IF k = m THEN n + 1 ELSE e[k]]
    <3>1. f[n + 1] = new BY <2>4, <2>6
    <3>2. /\ new \in Seq(T) /\ DOMAIN new = 1 .. m /\ DOMAIN o = 1 .. m - 1 /\ m \in Nat \ {0}
          /\ new[m] = x /\ \A k \in 1 .. m - 1 : new[k] = o[k]
          BY <2>3
    <3>3. /\ \A k \in 1 .. m - 1 : en[k] = e[k] /\ e[k] \in 1 .. n /\ o[k] = q[e[k]] /\ o[k] \in S
          /\ en[m] = n + 1 /\ DOMAIN en = 1 .. m /\ en = [k \in 1 .. m |-> en[k]]
          /\ \A k, l \in 1 .. m - 1 : k < l => e[k] < e[l]
          /\ \A i \in 1 .. n : q[i] \in S => \E k \in 1 .. m - 1 : e[k] = i
      <4>1. m \in Nat /\ \A k \in 1 .. m - 1 : k # m /\ k \in 1 .. m BY <3>2
      <4>2. \A k \in 1 .. m - 1 : en[k] = e[k] BY <4>1
      <4>3. en[m] = n + 1 /\ DOMAIN en = 1 .. m /\ en = [k \in 1 .. m |-> en[k]] BY <3>2
      <4> HIDE DEF en, m
      <4> QED BY <2>2, <3>2, <4>2, <4>3 DEF Picks
    <3> HIDE DEF en, new, m, o
    <3>4. en \in [DOMAIN new -> 1 .. n + 1]
      <4>1. ASSUME NEW k \in 1 .. m PROVE en[k] \in 1 .. n + 1
        <5>1. k = m \/ k \in 1 .. m - 1 BY <3>2
        <5>2. CASE k = m
          <6>1. en[k] = n + 1 BY <3>3, <5>2
          <6> QED BY <6>1
        <5>3. CASE k \in 1 .. m - 1
          <6>1. en[k] = e[k] /\ e[k] \in 1 .. n BY <3>3, <5>3
          <6> QED BY <6>1
        <5> QED BY <5>1, <5>2, <5>3
      <4> QED BY <3>2, <3>3, <4>1
    <3>5. \A k, l \in DOMAIN new : k < l => en[k] < en[l]
      <4> SUFFICES ASSUME NEW k \in 1 .. m, NEW l \in 1 .. m, k < l PROVE en[k] < en[l] BY <3>2
      <4>1. k \in 1 .. m - 1 BY <3>2
      <4>2. l = m \/ l \in 1 .. m - 1 BY <3>2
      <4>3. en[k] = e[k] /\ e[k] \in 1 .. n BY <3>3, <4>1
      <4>4. CASE l = m
        <5>1. en[l] = n + 1 BY <3>3, <4>4
        <5> QED BY <4>3, <5>1
      <4>5. CASE l \in 1 .. m - 1
        <5>1. en[l] = e[l] /\ e[k] < e[l] BY <3>3, <4>1, <4>5
        <5> QED BY <4>3, <5>1
      <4> QED BY <4>2, <4>4, <4>5
    <3>6. \A k \in DOMAIN new : new[k] = q[en[k]] /\ new[k] \in S
      <4> SUFFICES ASSUME NEW k \in 1 .. m PROVE new[k] = q[en[k]] /\ new[k] \in S BY <3>2
      <4>1. k = m \/ k \in 1 .. m - 1 BY <3>2
      <4> QED BY <2>6, <3>2, <3>3, <4>1
    <3>7. \A i \in 1 .. n + 1 : q[i] \in S => \E k \in DOMAIN new : en[k] = i
      <4> SUFFICES ASSUME NEW i \in 1 .. n + 1, q[i] \in S PROVE \E k \in 1 .. m : en[k] = i BY <3>2
      <4>1. CASE i = n + 1 BY <3>2, <3>3, <4>1
      <4>2. CASE i \in 1 .. n
        <5>1. PICK k \in 1 .. m - 1 : e[k] = i BY <3>3, <4>2
        <5>2. en[k] = e[k] BY <3>3
        <5>3. k \in 1 .. m BY <3>2
        <5>4. en[k] = i BY <5>1, <5>2
        <5> QED BY <5>3, <5>4
      <4>3. i = n + 1 \/ i \in 1 .. n OBVIOUS
      <4> QED BY <4>1, <4>2, <4>3
    <3>8. Picks(en, new, q, n + 1, S) BY <3>4, <3>5, <3>6, <3>7 DEF Picks
    <3> QED BY <3>1, <3>2, <3>8
  <2> QED BY <2>5, <2>6
<1>4. Nat \subseteq D
  <2> HIDE DEF D
  <2> QED BY <1>2, <1>3, SetInduction
<1>5. Good(Len(q)) BY <1>4
<1> QED BY <1>5 DEF Keep, f

\* What is kept, in the order it was in.
LEMMA KeepFacts ==
    ASSUME NEW T, NEW q \in Seq(T), NEW S
    PROVE  /\ Keep(q, S) \in Seq(T)
           /\ Elements(Keep(q, S)) = Elements(q) \cap S
           /\ Distinct(q) => Distinct(Keep(q, S))
           /\ \A x, y \in S : Before(q, x, y) => Before(Keep(q, S), x, y)
<1> DEFINE o == Keep(q, S)
<1>1. o \in Seq(T) BY KeepPicks
<1>2. PICK e : Picks(e, o, q, Len(q), S) BY KeepPicks
<1> HIDE DEF o
<1>3. DOMAIN q = 1 .. Len(q) OBVIOUS
<1>4. \A k \in DOMAIN o : e[k] \in DOMAIN q /\ o[k] = q[e[k]] /\ o[k] \in S BY <1>2, <1>3 DEF Picks
<1>5. \A i \in DOMAIN q : q[i] \in S => \E k \in DOMAIN o : e[k] = i BY <1>2, <1>3 DEF Picks
<1>6. \A k, l \in DOMAIN o : k < l => e[k] < e[l] BY <1>2 DEF Picks
<1>7. DOMAIN o \subseteq Nat /\ DOMAIN q \subseteq Nat BY <1>1
<1>8. Elements(o) = Elements(q) \cap S
  <2>1. ASSUME NEW x \in Elements(o) PROVE x \in Elements(q) \cap S BY <1>4 DEF Elements
  <2>2. ASSUME NEW x \in Elements(q), x \in S PROVE x \in Elements(o)
    <3>1. PICK i \in DOMAIN q : x = q[i] BY DEF Elements
    <3>2. PICK k \in DOMAIN o : e[k] = i BY <1>5, <2>2, <3>1
    <3> QED BY <1>4, <3>1, <3>2 DEF Elements
  <2> QED BY <2>1, <2>2
<1>9. ASSUME NEW k \in DOMAIN o, NEW l \in DOMAIN o, e[k] = e[l] PROVE k = l
  <2>1. e[k] \in Nat /\ e[l] \in Nat /\ k \in Nat /\ l \in Nat BY <1>4, <1>7
  <2>2. ~(k < l) /\ ~(l < k) BY <1>6, <1>9, <2>1
  <2> QED BY <2>1, <2>2
<1>10. Distinct(q) => Distinct(o) BY <1>4, <1>9 DEF Distinct
<1>11. ASSUME NEW x \in S, NEW y \in S, Before(q, x, y) PROVE Before(o, x, y)
  <2>1. PICK i, j \in DOMAIN q : i < j /\ q[i] = x /\ q[j] = y BY <1>11 DEF Before
  <2>2. PICK k \in DOMAIN o : e[k] = i BY <1>5, <2>1
  <2>3. PICK l \in DOMAIN o : e[l] = j BY <1>5, <2>1
  <2>4. k < l
    <3>1. k \in Nat /\ l \in Nat /\ i \in Nat /\ j \in Nat BY <1>7
    <3>2. k # l BY <2>1, <2>2, <2>3, <3>1
    <3>3. ~(l < k) BY <1>6, <2>1, <2>2, <2>3, <3>1
    <3> QED BY <3>1, <3>2, <3>3
  <2> QED BY <1>4, <2>1, <2>2, <2>3, <2>4 DEF Before
<1> QED BY <1>1, <1>8, <1>10, <1>11 DEF o

\* A turn more at the end.
LEMMA AppendFacts ==
    ASSUME NEW T, NEW q \in Seq(T), NEW x \in T
    PROVE  /\ Append(q, x) \in Seq(T) /\ Append(q, x) # <<>>
           /\ Elements(Append(q, x)) = Elements(q) \cup {x}
           /\ Distinct(q) /\ x \notin Elements(q) => Distinct(Append(q, x))
           /\ \A y, z : Before(q, y, z) => Before(Append(q, x), y, z)
           /\ \A y \in Elements(q) : Before(Append(q, x), y, x)
<1> DEFINE o == Append(q, x)
           n == Len(q)
<1>1. /\ o \in Seq(T) /\ n \in Nat /\ DOMAIN q = 1 .. n /\ DOMAIN o = 1 .. n + 1 /\ o[n + 1] = x
      /\ \A i \in 1 .. n : o[i] = q[i]
      OBVIOUS
<1> HIDE DEF o, n
<1>2. \A i \in DOMAIN o : i \in DOMAIN q \/ i = n + 1 BY <1>1
<1>3. \A i \in DOMAIN q : i \in DOMAIN o /\ o[i] = q[i] /\ i < n + 1 BY <1>1
<1>4. n + 1 \in DOMAIN o BY <1>1
<1>5. o # <<>> BY <1>4
<1>6. Elements(o) = Elements(q) \cup {x} BY <1>1, <1>2, <1>3, <1>4 DEF Elements
<1>7. Distinct(q) /\ x \notin Elements(q) => Distinct(o) BY <1>1, <1>2, <1>3 DEF Distinct, Elements
<1>8. ASSUME NEW y, NEW z, Before(q, y, z) PROVE Before(o, y, z) BY <1>3, <1>8 DEF Before
<1>9. ASSUME NEW y \in Elements(q) PROVE Before(o, y, x)
  <2>1. PICK i \in DOMAIN q : q[i] = y BY DEF Elements
  <2> QED BY <1>1, <1>3, <1>4, <2>1 DEF Before
<1> QED BY <1>1, <1>5, <1>6, <1>7, <1>8, <1>9 DEF o

\* A turn less at the front.
LEMMA TailFacts ==
    ASSUME NEW T, NEW q \in Seq(T), q # <<>>
    PROVE  /\ Tail(q) \in Seq(T) /\ Head(q) \in Elements(q) /\ Head(q) = q[1] /\ 1 \in DOMAIN q
           /\ Distinct(q) => Elements(Tail(q)) = Elements(q) \ {Head(q)} /\ Distinct(Tail(q))
           /\ \A y, z : Before(q, y, z) /\ y # Head(q) => Before(Tail(q), y, z)
<1> DEFINE o == Tail(q)
           n == Len(q)
           x == Head(q)
<1>1. /\ o \in Seq(T) /\ n \in Nat \ {0} /\ DOMAIN q = 1 .. n /\ DOMAIN o = 1 .. n - 1 /\ q[1] = x
      /\ \A i \in 1 .. n - 1 : o[i] = q[i + 1]
      OBVIOUS
<1> HIDE DEF o, n, x
<1>2. \A i \in DOMAIN o : i + 1 \in DOMAIN q /\ i + 1 # 1 /\ o[i] = q[i + 1] /\ i \in Nat BY <1>1
<1>3. \A i \in DOMAIN q : i # 1 => i - 1 \in DOMAIN o /\ o[i - 1] = q[i] /\ i \in Nat BY <1>1
<1>4. 1 \in DOMAIN q /\ x \in Elements(q) BY <1>1 DEF Elements
<1>5. ASSUME Distinct(q) PROVE Elements(o) = Elements(q) \ {x} /\ Distinct(o)
  <2>1. ASSUME NEW y \in Elements(o) PROVE y \in Elements(q) \ {x}
    <3>1. PICK i \in DOMAIN o : o[i] = y BY DEF Elements
    <3>2. i + 1 \in DOMAIN q /\ i + 1 # 1 /\ q[i + 1] = y BY <1>2, <3>1
    <3>3. y # x BY <1>1, <1>4, <1>5, <3>2 DEF Distinct
    <3> QED BY <3>2, <3>3 DEF Elements
  <2>2. ASSUME NEW y \in Elements(q) \ {x} PROVE y \in Elements(o)
    <3>1. PICK i \in DOMAIN q : q[i] = y BY DEF Elements
    <3> QED BY <1>1, <1>3, <3>1 DEF Elements
  <2>3. ASSUME NEW i \in DOMAIN o, NEW j \in DOMAIN o, o[i] = o[j] PROVE i = j
    <3>1. i + 1 = j + 1 BY <1>2, <1>5, <2>3 DEF Distinct
    <3> QED BY <1>2, <3>1
  <2> QED BY <2>1, <2>2, <2>3 DEF Distinct
<1>6. ASSUME NEW y, NEW z, Before(q, y, z), y # x PROVE Before(o, y, z)
  <2>1. PICK i, j \in DOMAIN q : i < j /\ q[i] = y /\ q[j] = z BY <1>6 DEF Before
  <2>2. i # 1 /\ j # 1 /\ i \in Nat /\ j \in Nat BY <1>1, <1>6, <2>1
  <2>3. i - 1 \in DOMAIN o /\ j - 1 \in DOMAIN o /\ i - 1 < j - 1 /\ o[i - 1] = y /\ o[j - 1] = z
        BY <1>3, <2>1, <2>2
  <2> QED BY <2>3 DEF Before
<1> QED BY <1>1, <1>4, <1>5, <1>6 DEF o, x

\* Who was overtaken still waits, and in the order there was.
LEMMA StillFirst ==
    ASSUME OvertakenIsFirst, NEW pairs, pairs \subseteq overtaken, NEW p \in pairs
    PROVE  p \in overtaken /\ p[1] \in Present /\ (p[2] \in Present => Before(order, p[1], p[2]))
BY DEF OvertakenIsFirst

LEMMA AcceptStep ==
    ASSUME QueueInv, Offered, NEW s \in Scopes, NEW discarded \in {0, 1},
           NEW base, base = [t \in Present \cup {s} |-> base[t]],
           \A t \in Present \cup {s} : base[t] \in Seq(Nat) /\ (t # s => base[t] # <<>>),
           Accept(s, base, discarded)
    PROVE  QueueInv'
<1> USE DEF QueueInv
<1>1. /\ queues' = [base EXCEPT ![s] = Append(base[s], offered + 1)]
      /\ order' = Placed(s) /\ queued' = queued - discarded + 1
      /\ scheduled' = TRUE /\ overtaken' = overtaken /\ offered' = offered + 1
      BY DEF Accept, Offered
<1>2. queued' \in Int /\ offered' \in Nat /\ scheduled' \in BOOLEAN BY <1>1 DEF QueueTypeOK
<1>3. Present' = Present \cup {s} /\ queues' = [t \in Present' |-> queues'[t]] BY <1>1 DEF Present
<1>4. ASSUME NEW t \in Present' PROVE queues'[t] \in Seq(Nat) /\ queues'[t] # <<>>
  <2>1. base[t] \in Seq(Nat) BY <1>3
  <2>2. CASE t = s
    <3>1. queues'[t] = Append(base[s], offered + 1) BY <1>1, <1>3, <2>2
    <3>2. offered + 1 \in Nat BY DEF QueueTypeOK
    <3> QED BY <2>1, <2>2, <3>1, <3>2, AppendFacts
  <2>3. CASE t # s
    <3>1. queues'[t] = base[t] BY <1>1, <1>3, <2>3
    <3> QED BY <1>3, <2>1, <2>3, <3>1
  <2> QED BY <2>2, <2>3
<1>5. /\ order \in Seq(Scopes) /\ Elements(order) = Present /\ Distinct(order)
      BY DEF QueueTypeOK, NothingStranded, Distinct
<1>6. /\ order' \in Seq(Scopes) /\ Elements(order') = Present' /\ Distinct(order')
      /\ \A x, y : Before(order, x, y) => Before(order', x, y)
      /\ s \notin Present => \A x \in Present : Before(order', x, s)
  <2>1. CASE s \in Present BY <1>1, <1>3, <1>5, <2>1 DEF Placed
  <2>2. CASE s \notin Present
    <3>1. order' = Append(order, s) BY <1>1, <2>2 DEF Placed
    <3> QED BY <1>3, <1>5, <2>2, <3>1, AppendFacts
  <2> QED BY <2>1, <2>2
<1>7. OvertakenIsFirst'
  <2> SUFFICES ASSUME NEW p \in overtaken
               PROVE  p[1] \in Present' /\ (p[2] \in Present' => Before(order', p[1], p[2]))
      BY <1>1 DEF OvertakenIsFirst
  <2>1. p[1] \in Present /\ (p[2] \in Present => Before(order, p[1], p[2])) BY StillFirst
  <2> QED BY <1>3, <1>6, <2>1
<1>8. QueueTypeOK' BY <1>1, <1>2, <1>3, <1>4, <1>6 DEF QueueTypeOK
<1>9. NothingStranded' BY <1>1, <1>4, <1>6 DEF NothingStranded, Distinct
<1> QED BY <1>7, <1>8, <1>9

LEMMA EnqueueStep == ASSUME QueueInv, NEW s \in Scopes, Enqueue(s) PROVE QueueInv'
<1> USE DEF QueueInv
<1> DEFINE all == With(s)
<1>1. /\ all = [t \in Present \cup {s} |-> all[t]] /\ DOMAIN all = Present \cup {s}
      /\ \A t \in Present \cup {s} : all[t] \in Seq(Nat) /\ (t # s => all[t] # <<>>)
  <2>1. \A t \in Present : queues[t] \in Seq(Nat) /\ queues[t] # <<>> BY DEF QueueTypeOK, NothingStranded
  <2> QED BY <2>1 DEF With
<1>2. Offered BY DEF Enqueue
<1> HIDE DEF all
<1>3. CASE Accept(s, all, 0) BY <1>1, <1>2, <1>3, AcceptStep
<1>4. ASSUME NEW t \in Present \cup {s}, all[t] # <<>>, t # s => Len(all[t]) > 1,
             Accept(s, [all EXCEPT ![t] = Tail(@)], 1)
      PROVE  QueueInv'
  <2> DEFINE base == [all EXCEPT ![t] = Tail(all[t])]
  <2>1. base = [u \in Present \cup {s} |-> base[u]] BY <1>1
  <2>2. Tail(all[t]) \in Seq(Nat) /\ (t # s => Tail(all[t]) # <<>>)
    <3> DEFINE q == all[t]
    <3>1. q \in Seq(Nat) /\ q # <<>> /\ (t # s => Len(q) > 1) BY <1>1, <1>4
    <3> HIDE DEF q
    <3>2. Tail(q) \in Seq(Nat) /\ Len(Tail(q)) = Len(q) - 1 BY <3>1
    <3>3. Len(q) > 1 => 1 \in DOMAIN Tail(q)
      <4>1. DOMAIN Tail(q) = 1 .. Len(Tail(q)) /\ Len(q) \in Nat BY <3>1, <3>2
      <4> QED BY <3>2, <4>1
    <3>4. 1 \in DOMAIN Tail(q) => Tail(q) # <<>>
      <4>1. ASSUME NEW o, o = <<>> PROVE DOMAIN o = {} BY <4>1
      <4> QED BY <4>1
    <3> QED BY <3>1, <3>2, <3>3, <3>4 DEF q
  <2>3. ASSUME NEW u \in Present \cup {s} PROVE base[u] \in Seq(Nat) /\ (u # s => base[u] # <<>>)
    <3>1. CASE u = t BY <1>1, <2>2, <3>1
    <3>2. CASE u # t
      <4>1. base[u] = all[u] BY <1>1, <3>2
      <4> HIDE DEF base
      <4> QED BY <1>1, <4>1
    <3> QED BY <3>1, <3>2
  <2>4. Accept(s, base, 1) BY <1>4
  <2> HIDE DEF base
  <2> QED BY <1>2, <2>1, <2>3, <2>4, AcceptStep
<1>5. CASE ReplaceOwnOldest(s)
  <2>1. Len(all[s]) >= PerScopeCapacity /\ Accept(s, [all EXCEPT ![s] = Tail(@)], 1)
        BY <1>5 DEF ReplaceOwnOldest, OwnFull, all
  <2>2. all[s] # <<>>
    <3>1. PerScopeCapacity >= 1 /\ PerScopeCapacity \in Int BY QueueAssumption
    <3> QED BY <2>1, <3>1
  <2> QED BY <1>4, <2>1, <2>2
<1>6. CASE EvictOldest(s)
  <2>1. PICK noisy \in Longest(all) : Accept(s, [all EXCEPT ![noisy] = Tail(@)], 1)
        BY <1>6 DEF EvictOldest, all
  <2>2. noisy \in Present \cup {s} /\ Len(all[noisy]) > 1 BY <1>1 DEF Longest
  <2>3. all[noisy] # <<>> BY <2>2
  <2> QED BY <1>4, <2>1, <2>2, <2>3
<1>7. CASE Refuse(s)
  <2>1. UNCHANGED <<queues, order, queued, scheduled, overtaken>> /\ offered' = offered + 1
        BY <1>2, <1>7 DEF Refuse, Offered
  <2>2. Present' = Present BY <2>1 DEF Present
  <2>3. QueueTypeOK' BY <2>1, <2>2 DEF QueueTypeOK
  <2> QED BY <2>1, <2>2, <2>3 DEF NothingStranded, OvertakenIsFirst
<1> QED BY <1>3, <1>5, <1>6, <1>7 DEF Enqueue, AcceptDirectly, all

LEMMA HeldIsFinite == ASSUME QueueInv PROVE IsFiniteSet(Held)
<1>1. IsFiniteSet(Present) BY QueueAssumption, FS_Subset DEF QueueInv, QueueTypeOK
<1>2. ASSUME NEW s \in Present PROVE IsFiniteSet(Elements(queues[s]))
  <2> DEFINE q == queues[s]
  <2>1. q \in Seq(Nat) BY DEF QueueInv, QueueTypeOK
  <2> HIDE DEF q
  <2>2. IsFiniteSet(DOMAIN q)
    <3>1. Len(q) \in Nat /\ DOMAIN q = 1 .. Len(q) BY <2>1
    <3> QED BY <3>1, FS_Interval
  <2>3. IsFiniteSet({q[i] : i \in DOMAIN q})
    <3> DEFINE f == [i \in DOMAIN q |-> q[i]]
               R == {q[i] : i \in DOMAIN q}
    <3>1. f \in [DOMAIN q -> R] OBVIOUS
    <3>2. \A x \in R : \E i \in DOMAIN q : f[i] = x OBVIOUS
    <3>3. f \in Surjection(DOMAIN q, R) BY <3>1, <3>2 DEF Surjection
    <3> HIDE DEF f, R
    <3>4. IsFiniteSet(R) BY <2>2, <3>3, FS_Surjection
    <3> QED BY <3>4 DEF R
  <2> QED BY <2>3 DEF Elements, q
<1> DEFINE G == {Elements(queues[s]) : s \in Present}
<1>3. IsFiniteSet(G)
  <2> DEFINE f == [s \in Present |-> Elements(queues[s])]
  <2>1. f \in Surjection(Present, G) BY DEF Surjection
  <2> HIDE DEF f, G
  <2> QED BY <1>1, <2>1, FS_Surjection
<1>4. \A x \in G : IsFiniteSet(x) BY <1>2
<1> HIDE DEF G
<1>5. IsFiniteSet(UNION G) BY <1>3, <1>4, FS_UNION
<1> QED BY <1>5 DEF Held, G

LEMMA RemoveStep == ASSUME QueueInv, NEW gone \in SUBSET Held, Remove(gone) PROVE QueueInv'
<1> USE DEF QueueInv
<1> DEFINE staying == {s \in Present : Elements(queues[s]) \ gone # {}}
           removed == Cardinality(Held \cap gone)
<1>1. /\ queues' = [s \in staying |-> Keep(queues[s], Held \ gone)]
      /\ order' = Keep(order, staying) /\ queued' = queued - removed
      /\ overtaken' = StillWaiting(overtaken, staying) /\ UNCHANGED <<scheduled, offered>>
      BY DEF Remove
<1>2. Present' = staying /\ queues' = [s \in Present' |-> queues'[s]] BY <1>1 DEF Present
<1>3. removed \in Nat
  <2>1. IsFiniteSet(Held \cap gone) BY HeldIsFinite, FS_Subset
  <2> QED BY <2>1, FS_CardinalityType
<1>4. ASSUME NEW s \in staying PROVE queues'[s] \in Seq(Nat) /\ queues'[s] # <<>>
  <2> DEFINE q == queues[s]
             left == Held \ gone
  <2>1. q \in Seq(Nat) BY DEF QueueTypeOK
  <2>2. PICK x \in Elements(q) : x \notin gone OBVIOUS
  <2>3. x \in left BY <2>2 DEF Held
  <2>4. queues'[s] = Keep(q, left) BY <1>1
  <2> HIDE DEF q, left, staying
  <2>5. Keep(q, left) \in Seq(Nat) /\ Elements(Keep(q, left)) = Elements(q) \cap left BY <2>1, KeepFacts
  <2>6. Elements(Keep(q, left)) # {} BY <2>2, <2>3, <2>5
  <2>7. Keep(q, left) # <<>> BY <2>6 DEF Elements
  <2> QED BY <2>4, <2>5, <2>7
<1>5. order \in Seq(Scopes) /\ Elements(order) = Present /\ Distinct(order)
      BY DEF QueueTypeOK, NothingStranded, Distinct
<1>6. staying \subseteq Present OBVIOUS
<1> HIDE DEF staying, removed
<1>7. /\ order' \in Seq(Scopes) /\ Elements(order') = Present' /\ Distinct(order')
      /\ \A x, y \in staying : Before(order, x, y) => Before(order', x, y)
  <2>1. /\ Keep(order, staying) \in Seq(Scopes)
        /\ Elements(Keep(order, staying)) = Elements(order) \cap staying
        /\ Distinct(Keep(order, staying))
        /\ \A x, y \in staying : Before(order, x, y) => Before(Keep(order, staying), x, y)
        BY <1>5, KeepFacts
  <2> QED BY <1>1, <1>2, <1>5, <1>6, <2>1
<1>8. OvertakenIsFirst'
  <2> SUFFICES ASSUME NEW p \in overtaken, p[1] \in staying
               PROVE  p[1] \in Present' /\ (p[2] \in Present' => Before(order', p[1], p[2]))
      BY <1>1 DEF OvertakenIsFirst, StillWaiting
  <2>1. p[2] \in Present => Before(order, p[1], p[2]) BY StillFirst
  <2> QED BY <1>2, <1>6, <1>7, <2>1
<1>9. QueueTypeOK'
  <2>1. queued' \in Int /\ scheduled' \in BOOLEAN /\ offered' \in Nat BY <1>1, <1>3 DEF QueueTypeOK
  <2>2. overtaken' \subseteq Scopes \X Scopes BY <1>1 DEF QueueTypeOK, StillWaiting
  <2>3. Present' \subseteq Scopes BY <1>2, <1>6 DEF QueueTypeOK
  <2>4. \A s \in Present' : queues'[s] \in Seq(Nat) BY <1>2, <1>4
  <2> QED BY <1>2, <1>7, <2>1, <2>2, <2>3, <2>4 DEF QueueTypeOK
<1>10. NothingStranded'
  <2>1. queued' > 0 => scheduled' BY <1>1, <1>3 DEF NothingStranded, QueueTypeOK
  <2> QED BY <1>2, <1>4, <1>7, <2>1 DEF NothingStranded, Distinct
<1> QED BY <1>8, <1>9, <1>10

\* A turn of the scope s at the front: its oldest item, then its next turn.
LEMMA TurnStep ==
    ASSUME QueueInv, order # <<>>, NEW s, s = Head(order), RunTurn(s), scheduled' = (queued' > 0),
           UNCHANGED offered
    PROVE  QueueInv'
<1> USE DEF QueueInv
<1> DEFINE q == queues[s]
           rest == Tail(q)
           left == IF rest = <<>> THEN Present \ {s} ELSE Present
           back == Tail(order)
<1>1. /\ queues' = [t \in left |-> IF t = s THEN rest ELSE queues[t]]
      /\ order' = (IF rest = <<>> THEN back ELSE Append(back, s))
      /\ queued' = queued - 1
      /\ overtaken' = StillWaiting(overtaken, Present \ {s}) \cup {<<t, s>> : t \in Present \ {s}}
      BY DEF RunTurn, Turns
<1>2. order \in Seq(Scopes) /\ Elements(order) = Present /\ Distinct(order)
      BY DEF QueueTypeOK, NothingStranded, Distinct
<1>3. /\ s \in Present /\ back \in Seq(Scopes) /\ Elements(back) = Present \ {s} /\ Distinct(back)
      /\ \A y, z : Before(order, y, z) /\ y # s => Before(back, y, z)
      BY <1>2, TailFacts
<1>4. s \in Scopes /\ Present \subseteq Scopes BY <1>3 DEF QueueTypeOK
<1>5. rest \in Seq(Nat)
  <2>1. q \in Seq(Nat) /\ q # <<>> BY <1>3 DEF QueueTypeOK, NothingStranded
  <2> HIDE DEF q
  <2> QED BY <2>1
<1>6. Present' = left /\ queues' = [t \in Present' |-> queues'[t]] BY <1>1 DEF Present
<1>7. \A t \in left : t # s => t \in Present /\ queues'[t] = queues[t] BY <1>1
<1>8. s \in left => queues'[s] = rest /\ rest # <<>> BY <1>1
<1>9. Present \ {s} \subseteq left /\ left \subseteq Present /\ (s \in left <=> rest # <<>>) BY <1>3
<1> HIDE DEF q, rest, left, back
<1>10. \A t \in Present' : queues'[t] \in Seq(Nat) /\ queues'[t] # <<>>
       BY <1>5, <1>6, <1>7, <1>8 DEF QueueTypeOK, NothingStranded
<1>11. /\ order' \in Seq(Scopes) /\ Elements(order') = Present' /\ Distinct(order')
       /\ \A y, z : Before(order, y, z) /\ y # s => Before(order', y, z)
       /\ s \in Present' => \A y \in Present \ {s} : Before(order', y, s)
  <2>1. CASE rest = <<>> BY <1>1, <1>3, <1>6, <1>9, <2>1
  <2>2. CASE rest # <<>>
    <3>1. order' = Append(back, s) BY <1>1, <2>2
    <3>2. /\ Append(back, s) \in Seq(Scopes) /\ Elements(Append(back, s)) = Elements(back) \cup {s}
          /\ Distinct(Append(back, s))
          /\ \A y, z : Before(back, y, z) => Before(Append(back, s), y, z)
          /\ \A y \in Elements(back) : Before(Append(back, s), y, s)
          BY <1>3, <1>4, AppendFacts
    <3>3. Elements(back) \cup {s} = Present' BY <1>3, <1>6, <1>9, <2>2
    <3> QED BY <1>3, <3>1, <3>2, <3>3
  <2> QED BY <2>1, <2>2
<1>12. OvertakenIsFirst'
  <2> SUFFICES ASSUME NEW p \in overtaken'
               PROVE  p[1] \in Present' /\ (p[2] \in Present' => Before(order', p[1], p[2]))
      BY DEF OvertakenIsFirst
  <2>1. CASE p \in overtaken /\ p[1] \in Present \ {s}
    <3>1. p[2] \in Present => Before(order, p[1], p[2]) BY <2>1, StillFirst
    <3> QED BY <1>6, <1>9, <1>11, <2>1, <3>1
  <2>2. ASSUME NEW t \in Present \ {s}, p = <<t, s>> PROVE p[1] \in Present' /\ (p[2] \in Present' => Before(order', p[1], p[2]))
    <3>1. p[1] = t /\ p[2] = s BY <2>2
    <3> QED BY <1>6, <1>9, <1>11, <2>2, <3>1
  <2> QED BY <1>1, <2>1, <2>2 DEF StillWaiting
<1>13. overtaken' \subseteq Scopes \X Scopes BY <1>1, <1>4 DEF QueueTypeOK, StillWaiting
<1>14. queued' \in Int /\ scheduled' \in BOOLEAN /\ offered' \in Nat BY <1>1 DEF QueueTypeOK
<1>15. QueueTypeOK' BY <1>4, <1>6, <1>9, <1>10, <1>11, <1>13, <1>14 DEF QueueTypeOK
<1>16. NothingStranded' BY <1>10, <1>11 DEF NothingStranded, Distinct
<1> QED BY <1>12, <1>15, <1>16

LEMMA QueueStep == QueueInv /\ [QueueNext]_queueVars => QueueInv'
<1> SUFFICES ASSUME QueueInv, [QueueNext]_queueVars PROVE QueueInv' OBVIOUS
<1> USE DEF QueueInv
<1>1. CASE UNCHANGED queueVars
  <2>1. UNCHANGED <<queues, order, overtaken, queued, offered, scheduled>> /\ Present' = Present
        BY <1>1 DEF queueVars, Present
  <2> QED BY <2>1 DEF QueueTypeOK, NothingStranded, OvertakenIsFirst
<1>2. ASSUME NEW s \in Scopes, Enqueue(s) PROVE QueueInv' BY <1>2, EnqueueStep
<1>3. ASSUME NEW gone \in SUBSET Held, Remove(gone) PROVE QueueInv' BY <1>3, RemoveStep
<1>4. CASE Close
  <2>1. /\ queues' = [s \in {} |-> <<>>] /\ order' = <<>> /\ overtaken' = {} /\ queued' = 0
        /\ scheduled' = FALSE /\ offered' = offered
        BY <1>4 DEF Close
  <2>2. Present' = {} BY <2>1 DEF Present
  <2>3. Elements(order') = {} BY <2>1 DEF Elements
  <2>4. QueueTypeOK'
    <3>1. queues' = [s \in Present' |-> queues'[s]] BY <2>1, <2>2
    <3>2. order' \in Seq(Scopes) BY <2>1
    <3>4. queued' \in Int BY <2>1
    <3>5. scheduled' \in BOOLEAN BY <2>1
    <3>3. offered' \in Nat BY <2>1 DEF QueueTypeOK
    <3> QED BY <2>1, <2>2, <3>1, <3>2, <3>3, <3>4, <3>5 DEF QueueTypeOK
  <2>5. NothingStranded' BY <2>1, <2>2, <2>3 DEF NothingStranded
  <2> QED BY <2>1, <2>4, <2>5 DEF OvertakenIsFirst
<1>5. CASE RunOne
  <2>1. CASE order = <<>>
    <3>1. UNCHANGED <<queues, order, queued, overtaken, offered>> /\ scheduled' = (queued' > 0)
          BY <1>5, <2>1 DEF RunOne
    <3>2. Present' = Present BY <3>1 DEF Present
    <3>3. scheduled' \in BOOLEAN /\ (queued' > 0 => scheduled')
      <4>1. queued' > 0 => scheduled' BY <3>1
      <4>2. scheduled' \in BOOLEAN BY <3>1
      <4> QED BY <4>1, <4>2
    <3> QED BY <3>1, <3>2, <3>3 DEF QueueTypeOK, NothingStranded, OvertakenIsFirst
  <2>2. CASE order # <<>>
    <3>1. RunTurn(Head(order)) /\ scheduled' = (queued' > 0) /\ UNCHANGED offered BY <1>5, <2>2 DEF RunOne
    <3> QED BY <2>2, <3>1, TurnStep
  <2> QED BY <2>1, <2>2
<1> QED BY <1>1, <1>2, <1>3, <1>4, <1>5 DEF QueueNext

LEMMA QueueStart == QueueInit => QueueInv
<1> SUFFICES ASSUME QueueInit PROVE QueueInv OBVIOUS
<1>1. /\ queues = [s \in {} |-> <<>>] /\ order = <<>> /\ overtaken = {} /\ queued = 0
      /\ scheduled = FALSE /\ offered = 0
      BY DEF QueueInit
<1>2. Present = {} BY <1>1 DEF Present
<1>3. Elements(order) = {} BY <1>1 DEF Elements
<1>4. QueueTypeOK
  <2>1. queues = [s \in Present |-> queues[s]] BY <1>1, <1>2
  <2>2. order \in Seq(Scopes) BY <1>1
  <2>3. queued \in Int /\ offered \in Nat BY <1>1
  <2>4. scheduled \in BOOLEAN BY <1>1
  <2> QED BY <1>1, <1>2, <2>1, <2>2, <2>3, <2>4 DEF QueueTypeOK
<1>5. NothingStranded BY <1>1, <1>2, <1>3 DEF NothingStranded
<1> QED BY <1>1, <1>4, <1>5 DEF OvertakenIsFirst, QueueInv

\* However items are offered, evicted and removed, every scope with items has
\* exactly one turn coming, and a callback is pending (enqueue, remove, runOne).
THEOREM NoScopeStranded == QueueSpec => []NothingStranded
<1>1. QueueInv => NothingStranded BY DEF QueueInv
<1> QED BY <1>1, QueueStart, QueueStep, PTL DEF QueueSpec

\* The rounds are fair: no scope has two turns between two of a scope that
\* waits (runOne puts a scope that goes on at the end of the order).
THEOREM RoundsAreFair == QueueSpec => []NoSecondTurn
<1>1. QueueInv => NoSecondTurn
  <2> SUFFICES ASSUME QueueInv, order # <<>>, NEW s \in Scopes, <<s, Head(order)>> \in overtaken PROVE FALSE
      BY DEF NoSecondTurn
  <2> DEFINE h == Head(order)
             p == <<s, h>>
  <2>1. order \in Seq(Scopes) /\ Elements(order) = Present /\ Distinct(order)
        BY DEF QueueInv, QueueTypeOK, NothingStranded, Distinct
  <2>2. h \in Present /\ h = order[1] /\ 1 \in DOMAIN order BY <2>1, TailFacts
  <2>3. p[1] = s /\ p[2] = h OBVIOUS
  <2>4. Before(order, s, h) BY <2>2, <2>3 DEF QueueInv, OvertakenIsFirst
  <2>5. PICK i, j \in DOMAIN order : i < j /\ order[i] = s /\ order[j] = h BY <2>4 DEF Before
  <2>6. j = 1 BY <2>1, <2>2, <2>5 DEF Distinct
  <2>7. i \in Nat /\ i >= 1 BY <2>1
  <2> QED BY <2>5, <2>6, <2>7
<1> QED BY <1>1, QueueStart, QueueStep, PTL DEF QueueSpec

=============================================================================
