---------------------------- MODULE JobRegistry ----------------------------
(* CodexJobRegistry (tools.ts): what a Job's row says, while its turn ends,   *)
(* is stopped, or goes on without the bridge.  The registry keeps a Job in    *)
(* memory (mem) and in the state database (row).  The turn itself belongs to  *)
(* the execution owner, another process: a Job with an execution receipt      *)
(* keeps its turn, and the turn's result, across a crash of the bridge.  Two   *)
(* awaits make the component hard: settleExecution() waits for the database,  *)
(* and forceTerminateJob() waits for the worker while the turn, the progress  *)
(* and the other Jobs of the same worker go on.  And a stop changes memory in *)
(* the middle of its transactions: one that is rolled back leaves memory      *)
(* ahead of the rows, and a row that cannot be written is only logged.        *)
(*                                                                            *)
(* All Jobs run on one worker generation of the App Server back end, and      *)
(* belong to one project.                                                     *)
EXTENDS Naturals, Sequences, Absence

CONSTANTS
    Jobs,
    Receipted, \* the Jobs with executionReceipt; the others die with the bridge
    Results,   \* results a turn can end with: "completed", "failed", "interrupted"
    MaxStops,  \* bound: cancellation intents per Job
    MaxFaults  \* bound: crashes of the bridge, transactions and rows that fail

Live == {"running", "termination-failed"}
ActiveStatus == Live \cup {"terminating"}
TerminalStatus == {"completed", "failed", "interrupted", "cancelled"}

\* What a turn can end with: a result, or the loss of its worker.
Outcomes == {"completed", "failed", "interrupted", "lost"}
Origins == {"normal-completion", "upstream-failure", "app-server-interrupted", "explicit-cancellation",
            "assignment-containment", "bridge-restart", "worker-loss"}

JobRows == [status : ActiveStatus \cup TerminalStatus, origin : Origins \cup {None}, intent : Nat \cup {None},
            dispatched : BOOLEAN, assigned : BOOLEAN, connected : BOOLEAN]
StopRows == [intent : Nat, only : BOOLEAN, peers : UNION {[S -> Nat] : S \in SUBSET Jobs}]

ASSUME RegistryAssumption ==
    /\ Receipted \subseteq Jobs /\ Results \subseteq {"completed", "failed", "interrupted"}
    /\ MaxStops \in Nat /\ MaxFaults \in Nat
    /\ None \notin Nat \cup Outcomes \cup Origins \cup JobRows \cup StopRows

VARIABLES
    mem,                 \* jobs: the registry's own objects
    row,                 \* the jobs table
    intents,             \* the cancellation_intents table: per target, in order of creation
    stop,                \* terminations: the force-stop of a Job that awaits its worker
    end,                 \* the outcome whose commit settleExecution retries
    deferredSettlements, \* deferredSettlements
    queuedProgress,      \* progressPersistenceQueue has a snapshot of the Job
    turn,                \* the owner's turn, or its result, reserved until it is acknowledged
    told,                \* the turn's promise has settled, or nobody waits for it any more
    project,             \* projects.archive_state
    up,                  \* the bridge runs
    faults

registryVars == <<mem, row, intents, stop, end, deferredSettlements, queuedProgress, turn, told, project, up, faults>>

Is(t, j, statuses) == t[j] # None /\ t[j].status \in statuses

Spends(n) == faults + n <= MaxFaults /\ faults' = faults + n

\* persistJob: the transaction is committed, or it throws and nothing has changed.
Writes(ok) == Spends(IF ok THEN 0 ELSE 1)

\* One failure, of a transaction or of the rows it writes, has touched these Jobs.
Cost(js) == IF js = {} THEN 0 ELSE 1

RegistryInit ==
    /\ mem = [j \in Jobs |-> None] /\ row = [j \in Jobs |-> None]
    /\ intents = [j \in Jobs |-> <<>>] /\ stop = [j \in Jobs |-> None]
    /\ end = [j \in Jobs |-> None] /\ deferredSettlements = [j \in Jobs |-> None]
    /\ queuedProgress = [j \in Jobs |-> FALSE] /\ turn = [j \in Jobs |-> "none"]
    /\ told = [j \in Jobs |-> FALSE]
    /\ project = "active" /\ up = TRUE /\ faults = 0

--------------------------------------------------------------------------
(* upsertJob (stateStore.ts): which candidate a row accepts, and what it keeps. *)

Coalesce(x, y) == IF x = None THEN y ELSE x

StatusOfOrigin ==
    [o \in Origins |->
        CASE o = "normal-completion" -> "completed" [] o = "upstream-failure" -> "failed"
          [] o = "explicit-cancellation" -> "cancelled" [] OTHER -> "interrupted"]

\* The row keeps an origin and an intent that the candidate does not name.
Merged(old, c) ==
    IF old = None THEN c
    ELSE [c EXCEPT !.origin = Coalesce(@, old.origin), !.intent = Coalesce(@, old.intent)]

Accepts(old, c) ==
    LET m == Merged(old, c) IN
    /\ m.origin # None => m.status = StatusOfOrigin[m.origin]
    /\ m.origin = "app-server-interrupted" => m.intent = None
    /\ m.status = "cancelled" => m.intent # None /\ m.origin = "explicit-cancellation"

Ends(old, c) == old # None /\ old.status \in TerminalStatus /\ c.status \in ActiveStatus

Upserted(old, c) == IF Ends(old, c) \/ ~Accepts(old, c) THEN old ELSE Merged(old, c)

\* updateJobProgressState: progress of an active row; it takes back an
\* unconfirmed stop, and never changes a row that has ended.
Progressed(old) ==
    IF old # None /\ old.status = "termination-failed" THEN [old EXCEPT !.status = "running"] ELSE old

\* Every change of a Job has a new version: the stops asked for before are stale.
Aged(list) == [n \in DOMAIN list |-> [list[n] EXCEPT !.fresh = FALSE]]

Marked(list, n, status) == [list EXCEPT ![n].status = status]
OpenIntent(list, n) == list[n].status \in {"recorded", "dispatched"}

\* recordChange, of the Jobs js: memory has changed, and each row is written as
\* far as the database lets it.  A row in `lost` is not; the error is logged, and
\* the transaction around it goes on.
RecordChange(js, lost) ==
    /\ row' = [p \in Jobs |-> IF p \in js \ lost THEN Upserted(row[p], mem'[p]) ELSE row[p]]
    /\ queuedProgress' = [p \in Jobs |-> queuedProgress[p] /\ p \notin js \ lost]

--------------------------------------------------------------------------
(* Admission, dispatch and what a running turn reports. *)

NewJob == [status |-> "running", origin |-> None, intent |-> None,
           dispatched |-> FALSE, assigned |-> FALSE, connected |-> FALSE]

StartJob(j) ==
    /\ up /\ project = "active" /\ row[j] = None
    /\ mem' = [mem EXCEPT ![j] = NewJob] /\ row' = [row EXCEPT ![j] = NewJob]
    /\ UNCHANGED <<intents, stop, end, deferredSettlements, queuedProgress, turn, told, project, up, faults>>

\* The execution begins only if its dispatch is on record and the project is
\* still in use; otherwise it is rejected before anything is sent.
AssertJobMayExecute(j, ok) ==
    /\ up /\ Is(mem, j, {"running"}) /\ turn[j] = "none" /\ end[j] = None
    /\ IF ok /\ project = "active"
       THEN /\ mem' = [mem EXCEPT ![j].dispatched = TRUE]
            /\ row' = [row EXCEPT ![j] = Upserted(@, mem'[j])]
            /\ turn' = [turn EXCEPT ![j] = "running"]
            /\ UNCHANGED <<end, told>>
       ELSE /\ turn' = [turn EXCEPT ![j] = "refused"]
            /\ end' = [end EXCEPT ![j] = "failed"] /\ told' = [told EXCEPT ![j] = TRUE]
            /\ UNCHANGED <<mem, row>>
    /\ UNCHANGED <<intents, stop, deferredSettlements, queuedProgress, project, up>> /\ Writes(ok)

\* A write that fails drops the link to the owner, which reports it again.
RecordWorkerAssignment(j, ok) ==
    /\ up /\ Is(mem, j, Live) /\ turn[j] = "running"
    /\ ~mem[j].connected \/ ~row[j].assigned
    /\ mem' = [mem EXCEPT ![j].assigned = TRUE, ![j].connected = TRUE]
    /\ row' = [row EXCEPT ![j] = IF ok THEN Upserted(@, mem'[j]) ELSE @]
    /\ intents' = [intents EXCEPT ![j] = Aged(@)]
    /\ queuedProgress' = [queuedProgress EXCEPT ![j] = @ /\ ~ok]
    /\ UNCHANGED <<stop, end, deferredSettlements, turn, told, project, up>> /\ Writes(ok)

\* Progress takes back an unconfirmed stop.  It is written at once, or queued
\* as a snapshot for a later turn of the event loop.
RecordProgress(j, later, ok) ==
    /\ up /\ Is(mem, j, Live) /\ turn[j] = "running"
    /\ later => mem[j].status = "running"
    /\ mem' = [mem EXCEPT ![j].status = "running"]
    /\ row' = [row EXCEPT ![j] = IF ok /\ ~later THEN Progressed(@) ELSE @]
    /\ queuedProgress' = [queuedProgress EXCEPT ![j] = later]
    /\ intents' = [intents EXCEPT ![j] = Aged(@)]
    /\ UNCHANGED <<stop, end, deferredSettlements, turn, told, project, up>> /\ Writes(ok)

PersistDeferredProgress(j, ok) ==
    /\ up /\ queuedProgress[j]
    /\ queuedProgress' = [queuedProgress EXCEPT ![j] = FALSE]
    /\ row' = [row EXCEPT ![j] = IF ok /\ Is(mem, j, ActiveStatus) THEN Progressed(@) ELSE @]
    /\ UNCHANGED <<mem, intents, stop, end, deferredSettlements, turn, told, project, up>> /\ Writes(ok)

\* The owner's side: a turn ends, or the worker of all of them is lost.
TurnEnds(j, o) ==
    /\ turn[j] = "running" /\ turn' = [turn EXCEPT ![j] = o]
    /\ UNCHANGED <<mem, row, intents, stop, end, deferredSettlements, queuedProgress, told, project, up, faults>>

Lost(t) == [j \in Jobs |-> IF t[j] = "running" THEN "lost" ELSE t[j]]

WorkerLost ==
    /\ \E j \in Jobs : turn[j] = "running"
    /\ turn' = Lost(turn)
    /\ UNCHANGED <<mem, row, intents, stop, end, deferredSettlements, queuedProgress, told, project, up, faults>>

--------------------------------------------------------------------------
(* Settlement. *)

OriginOf == [o \in Outcomes |->
    CASE o = "completed" -> "normal-completion" [] o = "failed" -> "upstream-failure"
      [] o = "interrupted" -> "app-server-interrupted" [] OTHER -> "worker-loss"]

\* settleResolvedJob, settleUpstreamErrorJob, settleRejectedJob: the candidate.
Settled(job, o) == [job EXCEPT !.status = StatusOfOrigin[OriginOf[o]], !.origin = OriginOf[o], !.intent = None]

\* settleRejectedJob of a result that could not be committed.
CommitFailed(job) == [job EXCEPT !.status = "failed", !.origin = None, !.intent = None]

\* acknowledgeSettledExecution: the owner may forget a result whose Job's end
\* is on record.
Acknowledged(t, m, js) == [j \in Jobs |->
    IF j \in js \cap Receipted /\ t[j] \in Outcomes /\ Is(m, j, TerminalStatus)
          /\ m[j].origin # None /\ m[j].assigned
    THEN "released" ELSE t[j]]

\* The outcome that settleExecution has for a Job: a new one, or the one it retries.
Outcome(j) == IF end[j] # None THEN end[j] ELSE turn[j]

MaySettle(job) == job.status \in Live

\* settleExecution: an outcome waits for a stop that is going on; it is
\* committed once, and retried while the database refuses it.
SettleExecution(j, ok) ==
    LET o == Outcome(j)
        c == Settled(mem[j], o)
    IN  /\ up /\ mem[j] # None
        /\ end[j] # None \/ (~told[j] /\ turn[j] \in Outcomes)
        /\ told' = [told EXCEPT ![j] = TRUE]
        /\ \/ /\ mem[j].status = "terminating"
              /\ deferredSettlements' = [deferredSettlements EXCEPT ![j] = o] /\ end' = [end EXCEPT ![j] = None]
              /\ ok /\ UNCHANGED <<mem, row, intents, queuedProgress, turn, faults>>
           \/ /\ mem[j].status # "terminating" /\ ~MaySettle(mem[j])
              /\ end' = [end EXCEPT ![j] = None] /\ turn' = Acknowledged(turn, mem, {j})
              /\ ok /\ UNCHANGED <<mem, row, intents, deferredSettlements, queuedProgress, faults>>
           \/ /\ MaySettle(mem[j]) /\ ok /\ Accepts(row[j], c)
              /\ mem' = [mem EXCEPT ![j] = c] /\ row' = [row EXCEPT ![j] = Upserted(@, c)]
              /\ end' = [end EXCEPT ![j] = None] /\ queuedProgress' = [queuedProgress EXCEPT ![j] = FALSE]
              /\ intents' = [intents EXCEPT ![j] = Aged(@)]
              /\ turn' = Acknowledged(turn, mem', {j}) /\ UNCHANGED <<deferredSettlements, faults>>
           \/ /\ MaySettle(mem[j]) /\ ~(ok /\ Accepts(row[j], c)) /\ j \in Receipted
              /\ end' = [end EXCEPT ![j] = o] /\ Writes(ok)
              /\ UNCHANGED <<mem, row, intents, deferredSettlements, queuedProgress, turn>>
           \/ /\ MaySettle(mem[j]) /\ ~(ok /\ Accepts(row[j], c)) /\ j \notin Receipted
              /\ end' = [end EXCEPT ![j] = None] /\ UNCHANGED <<deferredSettlements, turn>>
              /\ \/ /\ mem' = [mem EXCEPT ![j] = CommitFailed(@)]
                    /\ row' = [row EXCEPT ![j] = Upserted(@, mem'[j])]
                    /\ queuedProgress' = [queuedProgress EXCEPT ![j] = FALSE]
                    /\ intents' = [intents EXCEPT ![j] = Aged(@)] /\ Writes(ok)
                 \/ /\ Writes(FALSE)
                    /\ UNCHANGED <<mem, row, intents, queuedProgress>>
        /\ UNCHANGED <<stop, project, up>>

--------------------------------------------------------------------------
(* Cancellation: an intent is recorded first, then the worker is asked.  *)

\* assertOriginalJobControl: the very turn is still the owner's.
OriginalControl(j) ==
    mem[j].status \in ActiveStatus => mem[j].connected /\ mem[j].assigned /\ turn[j] = "running"

NewIntent == [status |-> "recorded", fresh |-> TRUE]

BeginCancellationOperation(j) ==
    /\ up /\ mem[j] # None /\ OriginalControl(j) /\ Len(intents[j]) < MaxStops
    /\ intents' = [intents EXCEPT ![j] = Append(@, NewIntent)]
    /\ UNCHANGED <<mem, row, stop, end, deferredSettlements, queuedProgress, turn, told, project, up, faults>>

\* jobsForWorker: the other active Jobs of the worker.
Peers(j) == {p \in Jobs \ {j} : Is(mem, p, ActiveStatus) /\ mem[p].assigned}

\* forceTerminateJob up to its await.  `list` is the table with the target's
\* intent n; a peer that a dead worker would take along gets one of its own.
MayStop(j, n, list, peers) ==
    /\ list[j][n].fresh /\ stop[j] = None /\ mem[j].assigned
    /\ \A p \in peers \cup {j} : OriginalControl(p)

Terminating(job, n) == [job EXCEPT !.status = "terminating", !.intent = n, !.origin = None]

StopBegins(j, n, only, list, peers, lost) ==
    LET named == [p \in Jobs |-> IF p \in peers THEN Append(list[p], NewIntent) ELSE list[p]]
        sent  == [p \in Jobs |->
                    CASE p = j -> Marked(Aged(named[j]), n, "dispatched")
                      [] p \in peers -> Marked(named[p], Len(named[p]), "dispatched")
                      [] OTHER -> named[p]]
    IN  /\ mem' = [mem EXCEPT ![j] = Terminating(@, n)]
        /\ RecordChange({j}, lost)
        /\ intents' = sent
        /\ stop' = [stop EXCEPT ![j] = [intent |-> n, only |-> only,
                        peers |-> [p \in peers |-> Len(sent[p])]]]

\* The transaction that begins the stop is rolled back after it has changed the
\* memory: the Job is terminating there, and nobody stops it.  (The intents that
\* its peers were given for it stay unused and are left out.)
StopNeverBegins(j, n, list) ==
    /\ mem' = [mem EXCEPT ![j] = Terminating(@, n)]
    /\ intents' = [list EXCEPT ![j] = Aged(@)]
    /\ UNCHANGED <<row, stop, queuedProgress>>

\* jobs.cancel under a recorded intent.  A stale version, an owner that cannot
\* be verified or a failed transaction refuses the stop, and the intent has failed.
CancelJob(j, n, only, ok) ==
    LET peers  == IF only THEN {} ELSE Peers(j)
        failed == [intents EXCEPT ![j] = Marked(@, n, "failed")]
    IN
    /\ up /\ mem[j] # None /\ n \in DOMAIN intents[j] /\ intents[j][n].status = "recorded"
    /\ \A p \in peers : Len(intents[p]) < MaxStops
    /\ \/ /\ mem[j].status \in ActiveStatus /\ ok /\ MayStop(j, n, intents, peers)
          /\ \E lost \in SUBSET {j} :
                Spends(Cost(lost)) /\ StopBegins(j, n, only, intents, peers, lost)
       \/ /\ mem[j].status \in ActiveStatus /\ ~ok /\ MayStop(j, n, intents, peers)
          /\ StopNeverBegins(j, n, failed) /\ Writes(ok)
       \/ /\ mem[j].status \in TerminalStatus /\ intents[j][n].fresh
          /\ intents' = [intents EXCEPT ![j] = Marked(@, n, "no-op")]
          /\ UNCHANGED <<mem, row, stop, queuedProgress>> /\ Writes(ok)
       \/ /\ IF mem[j].status \in ActiveStatus
             THEN ~(ok /\ MayStop(j, n, intents, peers)) ELSE ~intents[j][n].fresh
          /\ intents' = failed
          /\ UNCHANGED <<mem, row, stop, queuedProgress>> /\ Writes(ok)
    /\ UNCHANGED <<end, deferredSettlements, turn, told, project, up>>

FlushForgets(j, left) == deferredSettlements' = [left EXCEPT ![j] = None] /\ UNCHANGED end

\* flushDeferredSettlement: settleExecution takes the outcome back, of those left.
Flushed(j, left) ==
    /\ end' = [end EXCEPT ![j] = Coalesce(left[j], @)]
    /\ deferredSettlements' = [left EXCEPT ![j] = None]

StoppedUnnamed(k, target, n) == [mem[k] EXCEPT
    !.status = IF k = target THEN "cancelled" ELSE "interrupted",
    !.origin = IF k = target THEN "explicit-cancellation" ELSE "assignment-containment"]

\* The end that a confirmed stop gives the Jobs it affected.
Stopped(k, target, n) == [mem[k] EXCEPT
    !.status = IF k = target THEN "cancelled" ELSE "interrupted",
    !.origin = IF k = target THEN "explicit-cancellation" ELSE "assignment-containment",
    !.intent = n]

\* What the worker can answer, with the turns it leaves.
Answers(j) ==
    (IF turn[j] \in Outcomes THEN {[kind |-> "already-completed", left |-> turn],
                                   [kind |-> "turn-interrupt", left |-> turn]} ELSE {})
    \cup (IF turn[j] = "running" THEN {[kind |-> "turn-interrupt", left |-> [turn EXCEPT ![j] = "interrupted"]]} ELSE {})
    \cup (IF stop[j].only THEN {} ELSE {[kind |-> "process-group", left |-> Lost(turn)]})
    \cup {[kind |-> "unconfirmed", left |-> turn]}

\* The intents that the stop of j has named, of itself and of its peers.
Names(s, j) == [p \in DOMAIN s.peers \cup {j} |-> IF p = j THEN s.intent ELSE s.peers[p]]

\* The Jobs that an answer changes, and what it makes of one: an answer that
\* comes too late gives the Job back to its own outcome, a confirmed stop ends
\* every Job it affected.
Confirmed(a) == a.kind \in {"turn-interrupt", "process-group"}
Affected(j, a) ==
    CASE a.kind = "process-group" -> DOMAIN Names(stop[j], j)
      [] a.kind = "unconfirmed" -> {}
      [] OTHER -> {j}
AnswerGives(j, a, p) ==
    IF Confirmed(a) THEN Stopped(p, j, Names(stop[j], j)[p])
    ELSE [mem[p] EXCEPT !.status = "running", !.intent = None]

\* What the transaction of the answer does to memory, of the Jobs it gets to.
Answered(j, a, js) == [p \in Jobs |-> IF p \in js THEN AnswerGives(j, a, p) ELSE mem[p]]
Undeferred(a, js) ==
    [p \in Jobs |-> IF Confirmed(a) /\ p \in js THEN None ELSE deferredSettlements[p]]
AgedOf(js) == [p \in Jobs |-> IF p \in js THEN Aged(intents[p]) ELSE intents[p]]

\* forceTerminateJob after its await, when the answer is committed.
StopReturns(j, a, lost) ==
    LET named == Names(stop[j], j)
        hit   == Affected(j, a)
        aged  == AgedOf(hit)
    IN  /\ stop' = [stop EXCEPT ![j] = None]
        /\ mem' = Answered(j, a, hit)
        /\ RecordChange(hit, lost)
        /\ intents' = [p \in Jobs |->
              CASE p \in hit /\ Confirmed(a) -> Marked(aged[p], named[p], "succeeded")
                [] p \in DOMAIN named /\ ~(p \in hit /\ Confirmed(a)) -> Marked(aged[p], named[p], "no-op")
                [] OTHER -> aged[p]]
        /\ turn' = Acknowledged(a.left, mem', hit)
        /\ IF Confirmed(a) THEN deferredSettlements' = Undeferred(a, hit) /\ UNCHANGED end
           ELSE Flushed(j, deferredSettlements)

\* The stop is not confirmed, or its answer could not be committed: rolled back
\* when memory had changed for the Jobs in `done`, or refused before it began.
\* An outcome that waited for a stop of `done` is gone by then.
StopFails(j, a, done, lost) ==
    LET named == Names(stop[j], j)
        aged  == AgedOf(done \cup {j})
    IN  /\ stop' = [stop EXCEPT ![j] = None]
        /\ mem' = [Answered(j, a, done) EXCEPT ![j].status = "termination-failed"]
        /\ RecordChange({j}, lost)
        /\ intents' = [p \in Jobs |->
                          IF p \in DOMAIN named /\ OpenIntent(aged[p], named[p])
                          THEN Marked(aged[p], named[p], "failed") ELSE aged[p]]
        /\ Flushed(j, Undeferred(a, done))

\* Not even the failure can be committed: nobody stops the Job any more, and what
\* was deferred stays so.  `failed` has the Job if this transaction had begun.
StopForgotten(j, a, done, failed) ==
    /\ stop' = [stop EXCEPT ![j] = None]
    /\ mem' = [p \in Jobs |-> IF p \in failed THEN [Answered(j, a, done)[p] EXCEPT !.status = "termination-failed"]
                              ELSE Answered(j, a, done)[p]]
    /\ intents' = AgedOf(done \cup failed)
    /\ deferredSettlements' = Undeferred(a, done)
    /\ UNCHANGED <<row, queuedProgress, end>>

ForceTerminateJob(j) ==
    /\ up /\ stop[j] # None
    /\ \E a \in Answers(j) :
          \/ /\ a.kind # "unconfirmed"
             /\ \E lost \in SUBSET Affected(j, a) : Spends(Cost(lost)) /\ StopReturns(j, a, lost)
          \/ /\ turn' = a.left
             /\ \E done \in SUBSET Affected(j, a), last \in SUBSET {j} :
                   LET before == IF a.kind = "unconfirmed" THEN 0 ELSE 1 IN
                   \/ Spends(before + Cost(last)) /\ StopFails(j, a, done, last)
                   \/ Spends(before + 1) /\ StopForgotten(j, a, done, last)
    /\ UNCHANGED <<told, project, up>>

--------------------------------------------------------------------------
(* The archive of the project, and the crash and restart of the bridge. *)

ArchiveProject ==
    /\ project = "active" /\ project' = "processing"
    /\ UNCHANGED <<mem, row, intents, stop, end, deferredSettlements, queuedProgress, turn, told, up, faults>>

\* Without a worker, a Job may be cancelled only if it was never dispatched.
AnyUndispatched(job) == ~job.assigned
Undispatched(job) == ~job.assigned /\ ~job.dispatched

StopForProjectArchive(j, ok) ==
    LET list  == [intents EXCEPT ![j] = Append(@, NewIntent)]
        n     == Len(list[j])
        peers == Peers(j)
    IN  /\ up /\ project = "processing" /\ Is(mem, j, ActiveStatus) /\ stop[j] = None
        /\ Len(intents[j]) < MaxStops /\ \A p \in peers : Len(intents[p]) < MaxStops
        /\ mem[j].assigned \/ Undispatched(mem[j])
        /\ \/ /\ Undispatched(mem[j]) /\ ok
              /\ mem' = [mem EXCEPT ![j] = Stopped(j, j, n)]
              /\ RecordChange({j}, {})
              /\ intents' = [intents EXCEPT ![j] = Marked(Aged(list[j]), n, "succeeded")]
              /\ UNCHANGED stop /\ Writes(ok)
           \/ /\ mem[j].assigned /\ ok /\ MayStop(j, n, list, peers)
              /\ \E lost \in SUBSET {j} : Spends(Cost(lost)) /\ StopBegins(j, n, FALSE, list, peers, lost)
           \/ /\ mem[j].assigned /\ ~ok /\ MayStop(j, n, list, peers)
              /\ StopNeverBegins(j, n, list) /\ Writes(ok)
           \/ /\ ~ok \/ (mem[j].assigned /\ ~MayStop(j, n, list, peers))
              /\ intents' = list /\ UNCHANGED <<mem, row, stop, queuedProgress>> /\ Writes(ok)
        /\ UNCHANGED <<end, deferredSettlements, turn, told, project, up>>

\* The bridge dies, and with it the turns that it ran itself.
BridgeCrash ==
    /\ up /\ faults < MaxFaults /\ up' = FALSE /\ faults' = faults + 1
    /\ mem' = [j \in Jobs |-> None]
    /\ stop' = [j \in Jobs |-> None] /\ end' = [j \in Jobs |-> None]
    /\ deferredSettlements' = [j \in Jobs |-> None] /\ queuedProgress' = [j \in Jobs |-> FALSE]
    /\ told' = [j \in Jobs |-> FALSE]
    /\ turn' = [j \in Jobs |-> IF j \in Receipted \/ turn[j] = "none" THEN turn[j] ELSE "gone"]
    /\ UNCHANGED <<row, intents, project>>

\* loadJobs: what an active Job without a receipt becomes.
Reloaded(job) ==
    IF job.dispatched THEN [job EXCEPT !.status = "termination-failed", !.connected = FALSE]
    ELSE [job EXCEPT !.status = "interrupted", !.origin = "bridge-restart", !.connected = FALSE]

\* load, then resumeAuthorizedRecoveries: an active Job with a receipt is
\* subscribed again; one that the owner has no receipt of is answered as lost.
\* Nobody waits for the turn of a Job that has ended on record, and nobody
\* acknowledges it (ownsRetainedResult is false of it).
BridgeRestart ==
    LET active == {j \in Jobs : Is(row, j, ActiveStatus)} IN
    /\ ~up /\ up' = TRUE
    /\ mem' = [j \in Jobs |->
          IF j \in active \cap Receipted
          THEN [row[j] EXCEPT !.connected = FALSE,
                              !.status = IF @ = "terminating" THEN "termination-failed" ELSE @]
          ELSE IF j \in active THEN Reloaded(row[j]) ELSE row[j]]
    /\ row' = [j \in Jobs |-> IF j \in active \ Receipted THEN Upserted(row[j], mem'[j]) ELSE row[j]]
    /\ turn' = [j \in Jobs |->
          IF j \in active \cap Receipted /\ turn[j] \in {"none", "refused", "released"} THEN "lost" ELSE turn[j]]
    /\ told' = [j \in Jobs |-> Is(row, j, TerminalStatus) /\ turn[j] \in Outcomes]
    /\ intents' = [j \in Jobs |-> IF j \in active \ Receipted THEN Aged(intents[j]) ELSE intents[j]]
    /\ UNCHANGED <<stop, end, deferredSettlements, queuedProgress, project, faults>>

RegistryNext ==
    \/ ArchiveProject \/ BridgeCrash \/ BridgeRestart \/ WorkerLost
    \/ \E j \in Jobs :
          \/ StartJob(j) \/ BeginCancellationOperation(j) \/ ForceTerminateJob(j)
          \/ \E o \in Results : TurnEnds(j, o)
          \/ \E ok \in BOOLEAN :
                \/ AssertJobMayExecute(j, ok) \/ RecordWorkerAssignment(j, ok)
                \/ \E later \in BOOLEAN : RecordProgress(j, later, ok)
                \/ PersistDeferredProgress(j, ok) \/ SettleExecution(j, ok)
                \/ StopForProjectArchive(j, ok)
                \/ \E n \in 1 .. MaxStops, only \in BOOLEAN : CancelJob(j, n, only, ok)

RegistrySpec == RegistryInit /\ [][RegistryNext]_registryVars

--------------------------------------------------------------------------
\* The turns that an end on record may have, by its origin.  The owner may have
\* forgotten the result since ("released"), or died with the bridge ("gone").
EndsAs(origin) ==
    {"released", "gone"} \cup
        CASE origin = "normal-completion" -> {"completed"}
          [] origin = "upstream-failure" -> {"failed", "refused"}
          [] origin = "app-server-interrupted" -> {"interrupted"}
          [] origin = "worker-loss" -> {"lost"}
          [] OTHER -> Outcomes \cup {"none", "refused"}

\* The end on record is the end of the turn, as its owner answers for it: a Job
\* is on record as completed, failed, interrupted or lost only if its turn is (a
\* receipt that was released too early is answered as lost), and whatever ends it
\* from outside (a stop, its containment, the archive, a restart) leaves no turn
\* that goes on or begins later (settleExecution, forceTerminateJob,
\* stopForProjectArchive, assertJobMayExecute).
EndIsTrue == \A j \in Jobs : Is(row, j, TerminalStatus) => turn[j] \in EndsAs(row[j].origin)

\* The end that a stop gives: in memory it may be ahead of the record.
StopOrigins == {"explicit-cancellation", "assignment-containment"}
StopEnded(t, j) == t[j] # None /\ t[j].origin \in StopOrigins

\* The outcome of a turn gives way only to a stop that its worker has confirmed:
\* once the bridge has been told of it, the Job has ended on record, or such a
\* stop has given it its end in memory, where a transaction that is rolled back
\* leaves it, or the outcome is being committed or waits for a stop, and its
\* owner still has it for the next bridge (settleExecution,
\* flushDeferredSettlement, forceTerminateJob).
OutcomeIsKept == \A j \in Jobs :
    up /\ j \in Receipted /\ told[j] =>
        \/ Is(row, j, TerminalStatus)
        \/ StopEnded(mem, j)
        \/ (end[j] # None \/ deferredSettlements[j] # None) /\ turn[j] # "released"

\* A stop on record as succeeded has stopped the turn: it neither goes on nor
\* begins later, even if the Job's row could not be written with it.  And a row
\* that says a stop ended its Job names an intent on record as succeeded
\* (forceTerminateJob, stopForProjectArchive, setCancellationIntentStatus).
StopIsProven == \A j \in Jobs :
    /\ \A n \in DOMAIN intents[j] : intents[j][n].status = "succeeded" => turn[j] # "running"
    /\ StopEnded(row, j) => /\ row[j].intent \in DOMAIN intents[j]
                            /\ intents[j][row[j].intent].status = "succeeded"

\* "Preserve committed facts": a Job that is on record as completed is never
\* anything else again, whatever happens to its worker.
CompletedIsPreserved ==
    [][\A j \in Jobs : Is(row, j, {"completed"}) => Is(row', j, {"completed"})]_registryVars

\* With a database that works and a bridge that keeps trying, an outcome the
\* owner has replayed ends its Job, whatever became of a stop before.
RegistryFair == RegistrySpec /\ \A j \in Jobs : WF_registryVars(SettleExecution(j, TRUE))
ReplaySettles == \A j \in Jobs : (up /\ end[j] # None) ~> (~up \/ Is(row, j, TerminalStatus))
=============================================================================
