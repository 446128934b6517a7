--------------------------- MODULE StateDatabase ---------------------------
(* The operational database as a file: the lease a start or a restore holds   *)
(* (stateDatabaseLifecycle.ts), the upgrade with its recovery point           *)
(* (stateStore.ts, stateBackup.ts) and the restore of that recovery point     *)
(* (stateRecovery.ts).  Every process may end between any two of its steps.   *)
EXTENDS Naturals, Sequences, Absence

CONSTANTS
    Procs,         \* processes, 1..n in the order of their start: a process id is not reused
    CurrentSchema, \* CURRENT_STATE_DATABASE_SCHEMA; the database found is at schema 1
    MaxCrashes     \* bound: processes that end without cleaning up

\* A database file, and the recovery point with its metadata.
DatabaseRows == [schema : Nat, source : Nat \cup {None}, pending : Nat \cup {None}, opened : BOOLEAN \cup {None},
                 from : Nat \cup {None}, owners : SUBSET Procs, work : BOOLEAN]
BackupRows == [schema : Nat, file : Nat, content : DatabaseRows]

ASSUME DatabaseAssumption ==
    /\ Procs \subseteq Nat /\ CurrentSchema \in Nat \ {0, 1} /\ MaxCrashes \in Nat
    /\ None \notin Nat \cup BOOLEAN \cup BackupRows

VARIABLES
    disk,      \* files by number: the database found, then every one created
    path,      \* the file the database path names; None while a restore has moved it aside
    backup,    \* the recovery point and its metadata: schema, and the file it was taken from
    lock,      \* the process in the migration lock file
    exclusive, \* the process with the exclusive migration connection
    proc,      \* processes: where they are, the inspection they go by, the file they have open
    admitted,  \* a service has admitted work
    raced,     \* the lock of a live process was removed as stale
    crashes

databaseVars == <<disk, path, backup, lock, exclusive, proc, admitted, raced, crashes>>

Found == [schema |-> 1, source |-> None, pending |-> None, opened |-> None, from |-> None,
          owners |-> {}, work |-> FALSE]
Fresh == [Found EXCEPT !.schema = CurrentSchema]

DatabaseInit ==
    /\ disk = <<Found>> /\ path = 1 /\ backup = None /\ lock = None /\ exclusive = None
    /\ proc = [p \in Procs |-> [at |-> "new", kind |-> None, saw |-> None, file |-> None, tries |-> 0]]
    /\ admitted = FALSE /\ raced = FALSE /\ crashes = 0

--------------------------------------------------------------------------
IsAlive(p) == proc[p].at \notin {"new", "gone"}
ProcessAt(p, kind, at) == proc[p].kind = kind /\ proc[p].at = at
MovesTo(p, at) == proc' = [proc EXCEPT ![p].at = at]
LiveOwners(db, p) == {q \in db.owners \ {p} : IsAlive(q)}
Mine(p) == disk[proc[p].file]
Write(p, db) == disk' = [disk EXCEPT ![proc[p].file] = db]

\* release: a lock that is not this process's is left alone.
Released(p) == lock' = IF lock = p THEN None ELSE lock
\* fail: the connection is closed and the lease is given back.
Fails(p) ==
    /\ MovesTo(p, "gone") /\ Released(p) /\ exclusive' = IF exclusive = p THEN None ELSE exclusive
    /\ UNCHANGED <<disk, path, backup, admitted, raced, crashes>>

--------------------------------------------------------------------------
(* The lease. *)

\* inspectStateDatabase, before the lock; the restore looks only under the lock.
Inspection == IF path = None THEN None
              ELSE [schema |-> disk[path].schema, source |-> disk[path].source, pending |-> disk[path].pending]
Launch(p, kind) ==
    /\ proc[p].at = "new" /\ \A q \in Procs : q < p => proc[q].at # "new"
    /\ proc' = [proc EXCEPT ![p] = [@ EXCEPT !.at = "lock", !.kind = kind, !.saw = Inspection]]
    /\ UNCHANGED <<disk, path, backup, lock, exclusive, admitted, raced, crashes>>

\* acquireMigrationLock: the file is created only where there is none; the lock
\* of a live process refuses, the one of a dead process is removed by name.
TakeLock(p) ==
    /\ proc[p].at = "lock" /\ proc[p].tries < 2
    /\ IF lock = None THEN lock' = p /\ MovesTo(p, "locked")
       ELSE MovesTo(p, IF IsAlive(lock) THEN "gone" ELSE "stale") /\ UNCHANGED lock
    /\ UNCHANGED <<disk, path, backup, exclusive, admitted, raced, crashes>>

RemoveStaleLock(p) ==
    /\ proc[p].at = "stale"
    /\ lock' = None /\ raced' = (raced \/ (lock # None /\ IsAlive(lock)))
    /\ proc' = [proc EXCEPT ![p] = [@ EXCEPT !.tries = proc[p].tries + 1,
                                             !.at = IF proc[p].tries = 0 THEN "lock" ELSE "gone"]]
    /\ UNCHANGED <<disk, path, backup, exclusive, admitted, crashes>>

--------------------------------------------------------------------------
(* A start of the bridge. *)

\* Reinspection under the lock, and the open that follows it.
OpenDatabase(p) ==
    /\ ProcessAt(p, "bridge", "locked")
    /\ IF proc[p].saw # Inspection \/ (path # None /\ LiveOwners(disk[path], p) # {}) THEN Fails(p)
       ELSE /\ IF path = None
               THEN disk' = Append(disk, Fresh) /\ path' = Len(disk) + 1
               ELSE UNCHANGED <<disk, path>>
            /\ proc' = [proc EXCEPT ![p] = [@ EXCEPT !.file = path',
                          !.at = IF path # None /\ (disk[path].schema # CurrentSchema \/ disk[path].pending # None)
                                 THEN "claim" ELSE "register"]]
            /\ UNCHANGED <<backup, lock, exclusive, admitted, raced, crashes>>

\* claimExclusiveMigrationConnection
ClaimExclusive(p) ==
    /\ proc[p].at = "claim"
    /\ IF exclusive # None \/ Mine(p).schema # proc[p].saw.schema \/ LiveOwners(Mine(p), p) # {} THEN Fails(p)
       ELSE /\ exclusive' = p /\ MovesTo(p, "prepare")
            /\ UNCHANGED <<disk, path, backup, lock, admitted, raced, crashes>>

\* requireMigrationBackupMetadata: the pair belongs to this file and this upgrade.
BackupIsFor(db, file) == backup # None /\ backup.schema = db.from /\ backup.file = file
NeedsBackupAlways(db) == TRUE
NeedsBackup(db) == db.source = None

\* prepareV19Migration: before the source is on record, whatever recovery point
\* there is is replaced; afterwards it is required.
PrepareMigration(p) ==
    /\ proc[p].at = "prepare"
    /\ IF Mine(p).schema = CurrentSchema \/ NeedsBackup(Mine(p)) \/ BackupIsFor(Mine(p), proc[p].file)
       THEN /\ IF Mine(p).schema # CurrentSchema /\ NeedsBackup(Mine(p))
               THEN backup' = None /\ MovesTo(p, "backup") ELSE UNCHANGED backup /\ MovesTo(p, "reconcile")
            /\ UNCHANGED <<disk, path, lock, exclusive, admitted, raced, crashes>>
       ELSE Fails(p)

\* VACUUM INTO, then the metadata that binds the snapshot to the file.
CreateMigrationBackup(p) ==
    /\ proc[p].at = "backup"
    /\ backup' = [schema |-> Mine(p).schema, file |-> path, content |-> Mine(p)]
    /\ MovesTo(p, "mark")
    /\ UNCHANGED <<disk, path, lock, exclusive, admitted, raced, crashes>>

RecordSource(p) ==
    /\ proc[p].at = "mark"
    /\ Write(p, [Mine(p) EXCEPT !.source = Mine(p).schema, !.from = Mine(p).schema]) /\ MovesTo(p, "reconcile")
    /\ UNCHANGED <<path, backup, lock, exclusive, admitted, raced, crashes>>

\* finalizeMigrationProvenance: the last step closes the upgrade and the boundary opens.
Finalized(db) ==
    IF db.schema = CurrentSchema THEN [db EXCEPT !.pending = None, !.source = None, !.opened = FALSE]
    ELSE [db EXCEPT !.pending = None]

\* reconcilePendingMigration: the schema was committed, its provenance was not.
ReconcilePending(p) ==
    /\ proc[p].at = "reconcile"
    /\ LET committed == Mine(p).pending = Mine(p).schema
       IN  IF committed /\ Mine(p).schema = CurrentSchema /\ ~BackupIsFor(Mine(p), proc[p].file) THEN Fails(p)
           ELSE /\ IF committed THEN Write(p, Finalized(Mine(p))) ELSE UNCHANGED disk
                /\ MovesTo(p, "step")
                /\ UNCHANGED <<path, backup, lock, exclusive, admitted, raced, crashes>>

\* runMigration: pending record, schema and data, provenance: three transactions.
RecordPending(p) ==
    /\ proc[p].at = "step" /\ Mine(p).schema < CurrentSchema
    /\ Write(p, [Mine(p) EXCEPT !.pending = Mine(p).schema + 1]) /\ MovesTo(p, "migrate")
    /\ UNCHANGED <<path, backup, lock, exclusive, admitted, raced, crashes>>

Migrate(p) ==
    /\ proc[p].at = "migrate"
    /\ Write(p, [Mine(p) EXCEPT !.schema = @ + 1]) /\ MovesTo(p, "finalize")
    /\ UNCHANGED <<path, backup, lock, exclusive, admitted, raced, crashes>>

FinalizeMigration(p) ==
    /\ proc[p].at = "finalize"
    /\ Write(p, Finalized(Mine(p))) /\ MovesTo(p, "step")
    /\ UNCHANGED <<path, backup, lock, exclusive, admitted, raced, crashes>>

\* Verified; the exclusive connection is closed and the path opened again.
ReopenAfterMigration(p) ==
    /\ proc[p].at = "step" /\ Mine(p).schema = CurrentSchema /\ path # None
    /\ exclusive' = None
    /\ proc' = [proc EXCEPT ![p] = [@ EXCEPT !.at = "register", !.file = path]]
    /\ UNCHANGED <<disk, path, backup, lock, admitted, raced, crashes>>

RegisterBridgeInstance(p) ==
    /\ proc[p].at = "register"
    /\ IF LiveOwners(Mine(p), p) # {} \/ exclusive # None THEN Fails(p)
       ELSE /\ Write(p, [Mine(p) EXCEPT !.owners = {p}]) /\ MovesTo(p, "complete")
            /\ UNCHANGED <<path, backup, lock, exclusive, admitted, raced, crashes>>

CompleteOpen(p) ==
    /\ proc[p].at = "complete" /\ MovesTo(p, "up") /\ Released(p)
    /\ UNCHANGED <<disk, path, backup, exclusive, admitted, raced, crashes>>

\* markServiceOpen, then the transport takes requests.
MarkServiceOpen(p) ==
    /\ proc[p].at = "up" /\ MovesTo(p, "serving")
    /\ Write(p, IF Mine(p).opened = None THEN Mine(p) ELSE [Mine(p) EXCEPT !.opened = TRUE])
    /\ UNCHANGED <<path, backup, lock, exclusive, admitted, raced, crashes>>

AdmitFirstWork(p) ==
    /\ proc[p].at = "serving" /\ ~Mine(p).work
    /\ Write(p, [Mine(p) EXCEPT !.work = TRUE]) /\ admitted' = TRUE
    /\ UNCHANGED <<path, backup, lock, exclusive, proc, raced, crashes>>

CloseStore(p) ==
    /\ proc[p].at \in {"up", "serving"} /\ MovesTo(p, "gone")
    /\ Write(p, [Mine(p) EXCEPT !.owners = @ \ {p}])
    /\ UNCHANGED <<path, backup, lock, exclusive, admitted, raced, crashes>>

--------------------------------------------------------------------------
(* restoreStateDatabase *)

RestorableAnyway(p, db) == db.schema = CurrentSchema /\ LiveOwners(db, p) = {} /\ BackupIsFor(db, path)
Restorable(p, db) ==
    db.schema = CurrentSchema /\ db.opened = FALSE /\ LiveOwners(db, p) = {} /\ BackupIsFor(db, path)

CheckRestore(p) ==
    /\ ProcessAt(p, "restore", "locked")
    /\ IF path = None \/ ~Restorable(p, disk[path]) THEN Fails(p)
       ELSE /\ proc' = [proc EXCEPT ![p] = [@ EXCEPT !.at = "aside", !.file = path]]
            /\ UNCHANGED <<disk, path, backup, lock, exclusive, admitted, raced, crashes>>

MoveAside(p) ==
    /\ proc[p].at = "aside" /\ path' = None /\ MovesTo(p, "place")
    /\ UNCHANGED <<disk, backup, lock, exclusive, admitted, raced, crashes>>

PlaceSnapshot(p) ==
    /\ proc[p].at = "place" /\ MovesTo(p, "verify")
    /\ disk' = Append(disk, backup.content) /\ path' = Len(disk) + 1
    /\ UNCHANGED <<backup, lock, exclusive, admitted, raced, crashes>>

RestoreReturns(p) ==
    /\ proc[p].at = "verify" /\ MovesTo(p, "gone") /\ Released(p)
    /\ UNCHANGED <<disk, path, backup, exclusive, admitted, raced, crashes>>

\* A failure after the move: the quarantined file takes its place back.
RestoreFails(p) ==
    /\ proc[p].at \in {"place", "verify"} /\ MovesTo(p, "gone") /\ Released(p)
    /\ path' = proc[p].file
    /\ UNCHANGED <<disk, backup, exclusive, admitted, raced, crashes>>

\* The process ends: the operating system closes its files, the lock file stays.
ProcessEnds(p) ==
    /\ IsAlive(p) /\ crashes < MaxCrashes /\ crashes' = crashes + 1
    /\ MovesTo(p, "gone") /\ exclusive' = IF exclusive = p THEN None ELSE exclusive
    /\ UNCHANGED <<disk, path, backup, lock, admitted, raced>>

--------------------------------------------------------------------------
DatabaseNext ==
    \E p \in Procs :
        \/ \E kind \in {"bridge", "restore"} : Launch(p, kind)
        \/ TakeLock(p) \/ RemoveStaleLock(p)
        \/ OpenDatabase(p) \/ ClaimExclusive(p) \/ PrepareMigration(p)
        \/ CreateMigrationBackup(p) \/ RecordSource(p) \/ ReconcilePending(p)
        \/ RecordPending(p) \/ Migrate(p) \/ FinalizeMigration(p) \/ ReopenAfterMigration(p)
        \/ RegisterBridgeInstance(p) \/ CompleteOpen(p) \/ MarkServiceOpen(p) \/ AdmitFirstWork(p) \/ CloseStore(p)
        \/ CheckRestore(p) \/ MoveAside(p) \/ PlaceSnapshot(p) \/ RestoreReturns(p) \/ RestoreFails(p)
        \/ ProcessEnds(p)

DatabaseSpec == DatabaseInit /\ [][DatabaseNext]_databaseVars

--------------------------------------------------------------------------
(* Properties. *)

\* From the moment an upgrade has its source on record until a service opens
\* the upgraded database, the recovery point of exactly that source and that
\* file is there: no retry, crash or restore leaves an upgrade that neither
\* goes on nor goes back.  (See AdmittedIsKept for raced.)
RecoveryPointKept ==
    ~raced /\ path # None /\ (disk[path].source # None \/ disk[path].opened = FALSE)
        => BackupIsFor(disk[path], path) /\ backup.content.source = None

\* Work a service has admitted is in the database the path names: a restore
\* does not discard it.  (Unless the lock of a live process was taken for stale.)
AdmittedIsKept == admitted /\ ~raced => \E p \in {path} : p # None /\ disk[p].work

\* "Acquire one lock for the canonical database target": two live processes do
\* not both act as the owner of the lease.
LeaseHolders == {p \in Procs : proc[p].at \in
             {"locked", "claim", "prepare", "backup", "mark", "reconcile", "step", "migrate", "finalize",
              "register", "complete", "aside", "place", "verify"}}
OneLeaseHolder == \A p, q \in LeaseHolders : p = q
=============================================================================
