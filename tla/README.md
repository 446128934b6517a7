# A TLA+ model of the Codex MCP bridge

The bridge (`src/`, TypeScript) lets ChatGPT start and follow Codex work on a
Mac.  A *Job* is a durable row in SQLite; its *turn* is executed by a Codex App
Server in another process, and lives on when the bridge restarts.  This
directory models how that handoff stays correct when links drop, processes
restart and messages are late, and the components around it: the Job registry
with its stops, the release of conversations, the delivery of notices and of
answers, automatic recovery, project archives, the database's upgrade and
restore, the choice of an account, and the start and stop of the runtime.  File
names below are relative to `src/src/` unless they say otherwise.

## 1. The system

### Processes

```
 ChatGPT / companions        macOS helper (macosHelperServer.ts)
        |  HTTP, MCP               |  unix socket: beginDrain, cancelDrain
        v                          v
 bridge ingress (server.ts) --> state owner (tools.ts, stateStore.ts)
                                   |  owns state.sqlite, the Job rows
                                   |  proxy: ChildProcessCodexExecutionService
                                   |  authenticated link (executionTransport.ts)
                                   v
                                execution owner (runChild, executionServiceProcess.ts)
                                   |  receipts (executionJournal.ts)
                                   v
                                Codex App Server pool
```

The state owner is the *controller* of the execution owner.  They restart
independently: a controller that comes back finds its running Jobs in SQLite and
asks the owner for their receipts; an owner that exits takes turns and receipts
with it.  Results are acknowledged only after their durable commit
(`src/docs/state-execution-isolation.md`).

### Inventory

| component | state | operations | interacts with | what makes it hard | what makes it correct |
|---|---|---|---|---|---|
| Execution journal (`executionJournal.ts`) | receipts in Map order, tombstones, auxiliary messages, the write in flight, controller id | admit, recover, acknowledge, connect, disconnect, send, pump and its callbacks | owner process, link | callbacks of writes that are not current any more; replay while writing; coalescing; bounded memory | lane bounds, no second admission, outcome kept until acknowledged, replay in order, open questions restored, no starvation |
| Execution owner and proxy (`executionServiceProcess.ts`) | pending requests with cursors, released replies, acknowledgement window, retained results | request, recover, acknowledge, replay, onMessage, onExit, restart | journal, link, Job registry | lost, repeated and late messages in both directions; exit at any point | one turn per Job, exact outcome, no skipped event, every request ends |
| Link (`executionTransport.ts`) | sockets, connection state | connect, send, close, reconnect | proxy, owner | a new socket before the old one's close event | order within a connection |
| Job registry (`tools.ts`), cancellation (`cancellation.ts`), progress | Jobs in memory and as rows, intents, deferred settlements, deferred progress | admit, dispatch, settle, stop, force-stop, archive, reload, recordProgress, persistDeferredProgress | everything | commits that fail; awaits of the database and of the worker; peers of one worker; a snapshot written late | a row ends once and with the turn's outcome; a stop on record is proven |
| Thread connections (`threadConnections.ts`, `appServerUpstream.ts`) | connection rows with revisions, loaded and routed conversations, release evidence | admit, hand-off, sweep, release, turn begins and ends | App Server pool | a release of many awaits against new Jobs, worker exits and restarts | a released conversation belongs to nobody; a release ends no turn |
| Relay delivery (`relayDelivery.ts`, `relayCard.ts`) | event, archived receipts, two indexes, leases, holds | register, reconcile, claim, enter, acknowledge, hold, replace card | cards, Job rows | leases that expire, late acknowledgements, questions asked again | a notice is sent once, and no due notice is forgotten |
| Questions (`questionTools.ts`, `questionStore.ts`) | delivery rows, operations in flight, pending interactions | answer, send, finish, restart, prune | Job registry, worker | a failure after the send; a retry that must not resend | what the row says of an answer is true |
| Automatic recovery (`automaticRecovery.ts`) | incident rows, schedule, sweep | observe, sweep, survey, attempt, finish | Job registry, connections | requested sweeps that join; budgets of a page; an end between commit and answer | bounded attempts, no problem passed over |
| Project lifecycle (`projectLifecycle.ts`) | archive receipts, shared control | archive, restore, delete, the controller | Job registry, connections | calls that fail, or are given up and take effect | an archive is confirmed in the end |
| Display reads (`displayReadPool.ts`) | shared reads, waiters, cached values | start, wait, invalidate, settle, notify | views, account | an account that changes while a read goes on; a full pool | no view shows another account; who was put off is told |
| Database lifecycle (`stateDatabaseLifecycle.ts`, `stateBackup.ts`, `stateRecovery.ts`, `stateStore.ts`) | lock file, database files, recovery point | lease, back up, migrate, open, restore | every start | a crash between any two files; two starts | the recovery point outlives the upgrade; admitted work stays |
| Account selection (`codexAuthSelection.ts`, `macosHelperServer.ts`) | profiles, candidate, staged and applied connection, login and logout processes | prepare, login, verify, stage, activate, resolve, remove, log out | launcher, helper | processes that outlive the helper and write later | the account confirmed is the account used |
| Drain gate (`runtimeDrain.ts`) and admission (`tools.ts`) | accepting flag, owner, retired target, admissions | begin, cancel (ordinary, targeted), acquire, release | helper | delayed and reordered calls of callers that do not know each other | no orphaned drain, no stolen drain, budget never renewed |
| Runtime stop (`macosHelperServer.ts`) | phase of a cleanup or a stop | ask, snapshot, signal, give up | drain gate | a snapshot that is old when the signal is sent | only an idle process group is signalled |
| Lifecycle reservations (`runtimeLifecycle.ts`, `macosHelperServer.ts`) | reservations on file, evaluation, launchers and their lock | submit, cancel, acknowledge, evaluate, launch, clean up, reconcile | launcher, runtime | the user changes his mind during an await; launchers outlive the helper | what was taken back is not carried out; one attempt at a time |
| Scope fair queue (`scopeFairQueue.ts`) | per-scope queues, order of turns, counters | enqueue, remove, close, runOne | Job registry | limits, eviction, scopes that empty and come back | no stranding, turns alternate |
| Sessions and follow-ups, skills, MCP events, telemetry, maintenance, servers, cards | | | | | see `PROJECT.json`, `components` |

`PROJECT.json` lists every component with its status, and under `hazards` what is
hard to test in this code, at the line where it bites and with the property that
would catch it.

## 2. Modules

| module | models |
|---|---|
| `ExecutionJournal` | `executionJournal.ts`, every operation with its trailing `pump()` |
| `JournalScheduling` | every step of `ExecutionJournal` with two counters of history: how often a waiting receipt, or an auxiliary message, was passed |
| `ExecutionHandoff` | extends the journal with the proxy, the link, the Job rows, and the faults of each |
| `TurnAuthority` | the abstract promise `ExecutionHandoff` implements: row and turn of a Job, no link, no receipts |
| `JobRegistry` | the Job registry of `tools.ts` with the Job transactions of `stateStore.ts`: what memory and row say of a Job while its turn goes on elsewhere |
| `ThreadConnections` | `threadConnections.ts` and the release of a conversation in `appServerUpstream.ts` |
| `RelayDelivery` | `relayDelivery.ts` with the cards of `relayCard.ts` and `relayTools.ts` |
| `QuestionAnswers` | `codex_answer` (`questionTools.ts`), its journal (`questionStore.ts`), and the way of the answer to the worker |
| `AutomaticRecovery` | `automaticRecovery.ts`: journal and controller |
| `ProjectLifecycle` | `projectLifecycle.ts`: the records of a project and the controller that carries them out |
| `DisplayReads` | `displayReadPool.ts` and the weekly usage of `tools.ts` over it |
| `StateDatabase` | lease, upgrade, recovery point and restore of the database file |
| `AccountSelection` | `codexAuthSelection.ts` with the logins, logouts and launches of `macosHelperServer.ts` and `src/scripts/start-codex-mcp-bridge.mjs` |
| `LifecycleReservations` | `runtimeLifecycle.ts` and what the helper does for a reservation |
| `RuntimeDrainGate` | `runtimeDrain.ts` and the admission slots of `tools.ts` |
| `RuntimeStop` | extends the gate with its two clients of `macosHelperServer.ts` |
| `ScopeFairQueue` | `scopeFairQueue.ts` |
| `Absence` | the value that stands for a missing row, shared by the modules that are checked together |
| `*Proofs` | the theorems: `ExecutionJournalProofs`, `AccountSelectionProofs`, `LifecycleProofs` (drain gate, stop, reservations), `ConnectionProofs` (thread connections, automatic recovery), `DeliveryProofs` (relay, answers), `JobRegistryProofs`, `ServiceProofs` (display reads, database, queue), `ExecutionHandoffProofs` (handoff and its refinement of `TurnAuthority`) |
| `MC_ExecutionJournal`, `MC_JournalLink`, `MC_ExecutionHandoff`, `MC_HandoffEnds` | instances for TLC of the journal, its scheduling and the handoff; `MC_JournalLink` has two loads, each with only the operations it is about |
| `MC_Components`, `MC_Progress` | the other components side by side, for safety and for liveness |

`ExecutionHandoff` is the composition of journal, link, proxy and rows, and
`RuntimeStop` that of the gate and its clients.  The other components reach each
other only through a row or one call, which each module models at its own side:
the worker's answer to a stop in `JobRegistry`, the success or failure of a stop
in `ProjectLifecycle` and `LifecycleReservations`, the admission of a Job in
`ThreadConnections`.

An operator whose name extends another's (`LaneFullLate` before `LaneFull`) is a
mutant: what that definition would be with a plausible slip.  Nothing uses it but
`mutants` in `PROJECT.json`, which says which property notices it.

### How the models correspond to the code

*Journal.*  `receipts` is `entries`, and `order` its Map order, which decides
whose turn it is on the link.  A JavaScript callback keeps a reference to the
entry or auxiliary message it wrote and compares identities; `writing.current`
is the result of that comparison, and becomes false when the object is deleted
or replaced.  `connect()` sets every cursor to `Number.MAX_SAFE_INTEGER`
(`MaxSafe`), so a receipt is mute until somebody subscribes to it; the model
stops numbering below it.  Payloads are `large` or not, and a receipt's byte
budget is `EventCapacity` events.  The lanes' limits (30, 8, 8, 6), the
auxiliary limit (256), the burst (8) and the tombstones (4096) are constants.

*Handoff.*  Each direction of the link is a FIFO: `wire` towards the controller,
`toOwner` towards the owner.  A link that drops loses what the controller had not
read and any suffix of what it had written; the owner notices later, or when the
next link takes over (`Establish` while `linked`), which is when its auxiliary
queue survives.  `turn` is what the App Server did, seen by nobody: it is what
rows are judged against.  Requests from the Bridge are Jobs (`Retained`, their
id is the Job's id, they are acknowledged after commit) or queries (random ids,
released when their reply is delivered); a query that was refused for capacity is
`refused`, and neither answered nor waiting.  A controller restart keeps `row` and
`assigned` (SQLite) and clears the proxy; `loadJobs` and
`resumeAuthorizedRecoveries` make every running Job a pending recovery.  An owner
exit clears the journal.  `onAssigned` that throws drops the link and keeps the
cursor (`AssignmentRefused`).

*Drain gate.*  Calls that throw change nothing and are no actions.  A target is
an identity and a deadline; `validate()` takes the shortest deadline it knows of.
The cleanup's requests travel on connections of their own and arrive in any
order or not at all; ordinary stops are calls of anybody, at any time.
`runtimeAdmissionSnapshot` closes the gate, awaits the inspection of background
work and only then counts: three actions.

*Queue.*  An item is the number of its offer, so newer means larger.  When
several scopes are equally long, the eviction depends on Map insertion order;
the model leaves that choice open.

*Job registry.*  `mem` is the registry's Map, `row` the database, `turn` what the
execution owner does, seen by nobody; `told` says that the bridge was told of the
turn's end.  `upsertJob`'s refusals are guards of the commit: a terminal row does
not become active, and an end that does not fit the intent of the row is not
taken.  A commit that fails is tried again each second.  All Jobs share one
worker, so a force-stop has peers.

`forceTerminateJob` changes memory inside the callbacks of its transactions, and
SQLite takes back only the rows.  So a transaction of a stop fails in one of two
ways.  Refused before it begins, it changes nothing.  Rolled back (a statement or
the COMMIT fails), it leaves what its callback had done: at the start of a stop
the Job is `terminating` in memory with nobody to stop it (`StopNeverBegins`); at
its end the outcomes that were deferred are deleted (`tools.ts:4363`) and target
and peers have ended in memory over active rows, for all of them or for those the
callback had reached (`done` in `StopFails`).  The transaction that then records
the failure may fail in both ways too (`StopForgotten`).  Rows are best effort inside
these transactions: `recordChange` logs a row it could not write
(`tools.ts:4704`), and the intents are committed all the same (`lost` in
`RecordChange`).  `settleExecution` persists first and changes memory after it, so
there memory and row agree.

*Thread connections.*  `conn` is the row, whose revision is kept as the mark
`same` on the release under way: whether the row is still the one it read.
`loaded` is the worker's own view, `route` is `threadWorkers`, `evidence` is
`releaseEvidence`.  Each await of `releaseThreadConnection` is a value of
`sweeping.at`.  A turn that cannot begin because another application holds the
conversation leaves the row as blocked (`ExternallyOwned`).

*Relay.*  A notice is named by what it is about.  `event` is the current record,
`history` the archived receipts; `ready` and `deferredUntil` are the two indexes.
A card's call may reach the store late or twice, and its answer nobody.

*Answers.*  From `codex_answer` to the send nothing is awaited, so the row, the
check and the send are one step; the answer's way over the link, its receipt by
the pending interaction, and the record of what is known of it are others.  A
send whose link failed may still arrive.

*Recovery.*  An incident is a number, and its row holds the attempts and whether
its time has come.  A sweep walks pages of agents; due agents come first and have
their own share of the attempts.  The bridge may end after the row has counted an
attempt and before the attempt is made or answered.  A lookup that throws ends the
sweep before the cursor has passed its agent; such failures count against the bound
of the bridge's ends, since one that fails for ever keeps its agent, and those behind
it, from being looked at.

*Project lifecycle.*  Every external call of the controller can succeed, fail, or
be given up after its time-out and take effect all the same.  A failure of a step
is a reason to try again later and skips what comes after it, as in the code: a
stop of the Jobs that fails skips the threads, and a record of an earlier release
that cannot be deleted leaves the project unresolved.

*Display reads.*  A revision is the digest of the account's files.  A read keeps
its place in the pool until it settles, invalidated or not.

*Database.*  A file is a number; `path` says which file the name points to.  A
process is a program counter over the steps of start and restore, and dies
between any two.  `raced` marks the histories in which two processes had the
lease (see the disagreements); the two safety properties except them.

*Accounts.*  Everything that identifies an account is one value.  A save is one
step; a call that was under way when another saved is marked as overtaken, which
is what the revision tells it.  A login or logout process goes on when the helper
or the user gives up on it.

*Reservations.*  The file is a sequence of records.  An evaluation is a step
counter over its awaits, with the mark `current` that its revision is still the
one it began with.  A launcher is named by its reservation and attempt, takes the
runtime's lock, and outlives the helper.

## 3. What TLC checks

| run | instance | shows |
|---|---|---|
| `journal_receipts` | two requests, two fingerprints, one slot, two controllers | `TypeOK`, `ReleasedStaysReleased`, `ResultKept` |
| `journal_link` | one turn with two questions and room for three events; two noisy turns and a notice on one link | `ReplayIsOrdered`, `ReplayRestoresQuestions`, `PeersTakeTurns`, `AuxiliaryIsServed` |
| `handoff_faults` | a Job and a query; one drop, one restart, one exit | `AcknowledgedIsCommitted`, `LostIsLost`, `AnsweredIsReleased`, `NothingSkipped`, `ImplementsTurnAuthority` |
| `handoff_ends` | a Job; two queries, one auxiliary place, window of two; the same faults | `JobSettles`, `QueryEnded`, under fairness |
| `components` | twelve parts in one run (1.2 million states), see below | 22 safety properties |
| `progress` | display reads, project lifecycle, automatic recovery | `NoOtherAccount`, and under fairness `PendingIsTold`, `ArchivesComplete`, `ProblemIsHandled` |
| `handoff_replay` | two Jobs, one slot, one drop | violates `NoTurnAfterFailure` |
| `handoff_release` | a Job and a query, one restart | violates `ReceiptReleased` |
| `registry_final` | two Jobs of one worker, one stop each | violates `CompletedIsPreserved` |
| `registry_replay` | one Job, one stop, under fairness | violates `ReplaySettles` |
| `threads_evidence` | one conversation, one refused turn | violates `ReleasedIsUnloaded` |
| `database_lease` | three processes, one crash | violates `OneLeaseHolder` |

*The parts of `components`.*  Every behaviour is one of one part; the variable
`part` is chosen at the start and the other parts stay as they began.  The
components keep no state in common, so an interleaving of two of them shows
nothing that each alone does not, and the state space is the sum of the parts
instead of their product.

| part | instance | properties |
|---|---|---|
| `relay`, `holds` | a question that comes back and two cards; one card with every hold | `SentOnce`, `DueIsIndexed`, `ReceiptKept` |
| `registry` | two Jobs, one with a receipt, stops, archive; one crash, one transaction refused or rolled back, or one unwritten row | `EndIsTrue`, `OutcomeIsKept`, `StopIsProven` |
| `threads` | two conversations of one worker, two Jobs, one hand-off, one break, one refused turn | `ReleasedIsUnrouted`, `ReleaseEndsNoTurn` |
| `recovery` | two agents, budget of two, one end of the bridge | `BudgetIsKept` |
| `database` | three processes, two schema steps, one crash | `RecoveryPointKept`, `AdmittedIsKept` |
| `stop` | two identities, deadlines to 4, two admissions | `OrdinaryDrainHolds`, `ClosedGateIsHeld`, `SignalledIsIdle`, `BudgetNeverRenewed` |
| `queue` | three projects, three places, two each, six offers | `NothingStranded`, `NoSecondTurn` |
| `logins`, `launches` | one profile, one login, one end of the helper; two homes and two launchers | `ConfirmedAccountIsUsed`, `AppliedIsProven` |
| `lifecycle` | two reservations, two attempts, one end of the helper, one exit | `EndedStaysEnded`, `AttemptIsAuthorized` |
| `questions` | two requests, two answers, restarts without bound, one removal | `DeliveryIsTrue` |

*Why the bounds are enough to be interesting.* The journal runs have fewer slots than
requests, fewer event places than kinds of events, and an auxiliary queue that
overflows, so each refusal happens. The handoff runs admit each kind of fault once, at
every point, in every combination. `MaxSent` bounds only how often the acknowledgement
timer may repeat itself with nobody reading. The queue has as many projects as places,
so an eviction can find nothing to evict; the gate's deadlines lie below, at and
beyond the inherited one. The relay's clock passes one lease and one retry; a second
attempt, a second card and a second asking of a question are each there. The
registry's second Job is the peer that a force-stop of the first takes with it; each
Job may be stopped twice where nothing fails, or once with one failure or crash (a
failed transaction, at any of its points, or rows that are not written), since two
stops of one Job overlap with the stop of its peer only then; once the project is
archived, only one of the two Jobs is stopped twice. Recovery has more agents than a
page names as due, and a budget that one end of the bridge in the middle of an attempt
would exceed if the count were not saved first. The database's third process is needed
to see two starts at one dead lock. Two reservations are what a replacement needs, two
attempts what an authorization of a second one needs.

*Fairness.*  Faults, new work and the choice of an outcome are never fair, and
faults are finite: no liveness holds on a link that never stays up.
`FairSpec` (handoff) assumes weak fairness of what the runtimes keep doing by
themselves: reading and writing sockets, running callbacks, the acknowledgement
timer, reconnecting (`ExecutionPeer` retries while its process lives), respawning
after an exit (`scheduleRestart`), retrying a failed commit every second
(`settleExecution`), and that a turn ends.  `RegistryFair` has the same retry.
In `progress`, a display read settles (its source has a time-out); the controller
of an archive runs while its project needs it, and a project that is held by
another process is given back; the steps of a sweep go on, an attempt is answered
(success, failure or time-out) and a back-off ends.  Only `TimerSweeps` is strongly
fair: the periodic sweep is off while a requested one runs, and requested sweeps
lie at least 100 ms apart, so it can begin again and again.  `ArchivesComplete` takes
it that a release can be proven in the end: the code answers `ownership-unconfirmed`
while the pid of an earlier worker without evidence is alive
(`appServerUpstream.ts:460`), and does so for ever if the system has given that pid to
a process that stays.

*Deadlock.*  It is checked in the journal runs.  The other instances stop when
their bounded work and faults are used up, and a closed queue or a signalled
process is at rest: those runs switch it off.

### Six disagreements

`handoff_release`: **a settled Job's receipt may stay in the execution lane.**
`acknowledgeSettledExecution` (`tools.ts:2634`) acknowledges only results that
this controller process delivered for a Job with a full assignment
(`executionServiceProcess.ts:1025`).  A controller that restarts after the commit
and before the acknowledgement finds a terminal row, recovers nothing, and never
acknowledges; the same holds for a turn that settles before its assignment is
recorded.  Each such receipt takes one of 30 execution places until the owner
exits.  `src/docs/execution-authority-and-evidence.md:40` describes retries of the
same receipt.  A link that is down at the commit is no such case: the next
`codex_task` acknowledges again (`tools.ts:8408`).

`handoff_replay`: **a Job recorded as refused may run.**  A refusal for capacity
leaves no trace in the journal.  When the request is replayed after a
reconnection while the refusal of its first copy is still queued, the controller
reads the refusal and fails the Job, acknowledgements free a place, and the
replayed copy is admitted.  It takes a full lane, a reconnection whose new
socket replaces the old one before its close event, and that order of arrivals.
A request that is made while a replay goes on is written twice without any
reconnection, once by `request()` and once by the replay that meets it in the live
Map (`executionServiceProcess.ts:744` and `:902`); queries are exposed to this too.
It is the only way in which the promise fails: `ImplementsTurnAuthority` is proved
for every behaviour without a refusal (section 4).

`registry_final`: **a force-stop may overwrite a completed peer.**
`forceTerminateJob` lists the Jobs of the worker before its await and ends all of
them after it (`tools.ts:4360`).  A peer that completed meanwhile, and is on record
as such, becomes interrupted.

`registry_replay`: **a turn may never be committed.**  A stop that is not confirmed
leaves its intent in the row, and the database refuses a turn that then ends as
interrupted for a row with an intent (`stateStore.ts:6467`); the settlement is
retried every second without end.

`threads_evidence`: **a conversation may be on record as released while it is
loaded.**  The evidence of an earlier release is deleted only when a turn is
accepted.  A turn that is refused after its conversation was resumed leaves the
conversation loaded and the evidence in place (`appServerUpstream.ts:461`).

`database_lease`: **two processes may both own the lease.**  A stale lock is removed
by name; between the reading and the removal another start may have removed it and
put its own there (`stateDatabaseLifecycle.ts:630`).

Others are named by the properties that hold without them.  After the rollback of a
force-stop's last transaction, an outcome the bridge had been told of is gone
(`tools.ts:4363`), although the outcome of a turn is to be kept "until the DB commit
succeeds" and a busy database "must not replace a completed turn's outcome"
(`tools.ts:2673`); the Jobs that ended in memory stay active on record until a
restart.  What settles such a Job meanwhile looks at memory and acknowledges the
receipt (`tools.ts:2633`), which `src/docs/execution-authority-and-evidence.md:40`
has happen after the commit; the next bridge is then answered that the turn is lost.
`OutcomeIsKept` excepts a Job with such an end in memory, and `EndIsTrue` speaks of the
end as the owner answers for it.
  `completeActivation`
(`codexAuthSelection.ts:651`) forgets the candidate of another profile whose login
goes on, and leaves that profile available; `ConfirmedAccountIsUsed` excepts
profiles in the history variable `forgotten`.  A launcher chooses its connection
with its environment and takes the runtime's lock only later
(`src/scripts/start-codex-mcp-bridge.mjs`, lines 89 and 211), so what is staged may
change in between and launchers may overtake each other; `AppliedIsProven` says that
nothing but the connection of the lock's owner becomes the applied one.
Likewise `RecoveryPointKept` and `AdmittedIsKept` except histories in which the lock
of a live process was removed (`raced`).

## 4. What TLAPS proves

For every value of the constants that satisfies the modules' assumptions:

- `JournalTypes`: `JournalSpec => []TypeOK`.  `TypeOK` is inductive as stated; its
  interesting part is `WritingOK`: a write that is still current belongs to a
  receipt that is there, or to the first auxiliary message.  Without it neither the
  callback's update nor `Tail(aux)` is justified.  `OrderOK` needs that places
  stay distinct under deletion and rotation: the lemmas about `Places` and
  `AtTheEnd`, by finite cardinality.
- `LaneCapacity`: `[]LaneBound`, no lane holds more receipts than its limit, from
  the types and the growth of `Used` by at most one admitted id.
- `ReleaseIsFinal`: `[]ReleasedStaysReleased`, for every length of the tombstone list.
- `NoTurnStarves`, `AuxiliariesAreServed` (scheduling), from `SchedulingInv`.  A
  counter alone is not inductive: what bounds it is the receipts still ahead in the
  order (`Ahead`), from which the one in flight is taken off when its write begins,
  because the callback will move it behind its peers; deletions keep the order of the
  rest (`PlacesKeepOrder`), an admission comes last, and a new connection mutes
  everybody, so that its `pump()` serves the auxiliary messages.  For these, the burst
  counts what passed them, one write late (`BurstCounts`), and it saturates only
  after writes that began while none was there.
- `OutcomeIsKept`: `ResultKept`, an action property, from the two above.
- `GateSafe` (the gate has its types, and a targeted owner always holds a closed
  gate), `GateBudget`: of the gate alone, any callers.
- `StopInvariant`: `StopSpec => []StopInv`.  The three safety properties are not
  inductive: a late message is harmless only because the gate is in one of three
  states, held by the cleanup, drained by the last ordinary call, or open
  (`HeldBy`), because the cleanup has at most one begin on its way
  (`RequestsOfPhase`), and because an idle reply stays true until somebody
  reopens the gate (`SeenIdleIsIdle`).  `OrdinaryDrain`, `NoOrphanedDrain` and
  `CleanupFence` follow.
- `StopImplementsGate`: `StopSpec => GateSpec`, so what is proved of the gate holds
  with these clients.
- `ConfirmedIsUsed`, `AppliedByProof` (accounts), from `AccountInv`.  That no login
  writes the profile in use is known only because a process that may still write is
  that of the candidate or of a profile marked as unconfirmed (`WriterIsKnown`,
  `LogoutIsKnown`), a candidate that can be verified has none (`CandidateIsFree`),
  and a call that was not overtaken still sees what it began with (`CallsAreFresh`).
- `BudgetKept` (recovery), from `RecoveryInv`: the calls made never exceed what the
  row has counted (`RowsCount`), a row of a later incident does not exist yet, and a
  sweep works on an incident that has begun.
- `SentAtMostOnce`, `ReceiptsAreKept` (relay), from `RelayInv`: an attempt that was
  let in and not refused for good is the attempt of the receipt of its notice
  (`GrantIsReceipted`), so a second attempt finds the receipt taken.
- `ReleasedStaysUnrouted`, `ClosingEndsNoTurn` (conversations), from `ThreadsInv`:
  while the release is of the row it read, that row is releasing
  (`ReleaseIsOnRecord`) and its conversation idle (`ReleasingIsIdle`).
- `RecordedDeliveriesAreTrue` (answers), from `QuestionsInv`: an operation in flight
  owns the row, and only the answer of the row can be on its way, while the row says
  neither delivered nor not delivered.
- `EndedReservationStays` (reservations), from `ReservationsInv`: an evaluation acts
  only while its record is executing, and while its revision stands what it saw
  still holds.

- `AttemptsAreAuthorized` (reservations), from the same invariant: the attempt that
  is launched is the last one the user allowed, and no process group is left of the
  one before.
- `EventsStayInOrder`, `QuestionsAreRestored` (journal): each receipt numbers what it
  stores above what it holds, so pruning and coalescing leave distinct numbers up to
  its own, and the newest question snapshot is replaced whenever the open set changes.
- `DueIsAlwaysIndexed` (relay): the index `deferredUntil` holds the latest of the
  holds and leases that a notice still has.  The latest of a finite set is taken by a
  choice, which the theorem's lemmas show to be there.
- `NoOutcomeDropped`, `EveryStopIsProven` (registry), from
  `RegistryInv`.  The memory may fall behind the row when two stops overlap, and run
  ahead of it when a transaction is rolled back or a row is not written.  So the
  invariant says in which direction: a Job that has ended in memory and not on record
  was ended by a stop (`EndedOnRecord`), which is what `OutcomeIsKept` excepts, and a
  turn whose end the bridge was told is over (`ToldIsOver`).  An intent becomes
  succeeded only when its Job's turn can neither go on nor begin (`Over`, `Proven`), in
  the same transaction as the row, but whether or not the row could be written.  The
  intents which the stops under way have named are still open (`NamedAreOpen`) and each
  named by one of them (`NamedOnce`): without that, the answer to one stop would write
  over the intent another is waiting for.
- `NoEndIsInvented`, `NoEndIsTakenBack` (registry): the end a Job has on record is the
  end of its turn, as the owner answers for it, and no step makes it active again.  The first is not inductive: an
  outcome that is being committed, or waits for a stop, will become an end, so `EndsInv`
  (over `RegistryInv`) says that each of them is what became of the turn (`Fits`), and
  that a turn which has not begun is not stopped and has no ended row behind a memory
  that may still begin it.  Which end is on record may change when stops overlap (see
  `registry_final`), so the second theorem speaks of having ended, not of how.
- `RecoveryPointIsThere`, `AdmittedWorkStays` (database), unless the lock of a live
  process was removed, and `OneOwnerUnlessRaced`: that removal is the only way to two
  owners.  The invariant says of each step of an upgrade or restore what its holder may
  count on, and that a bridge that is up owns the file the path names.
- `NoScopeStranded`, `RoundsAreFair` (queue), for any scopes and capacities: a scope is
  in the order of turns exactly while it has items, and one that was overtaken stands
  before the one that overtook it.
- `UsageIsTheAccounts` (display reads): what a read that is not yet invalidated will
  store is of the revision that its waiters asked for.
- `HandoffInvariant`: `HandoffSpec => []HandoffInv`, with `OutcomeIsForgottenLast`,
  `LossIsFinal` and `AnswerFreesTheSlot`.  None of the three is inductive: a tombstone,
  a lost worker or an answer is final only because no copy of the request can reach the
  owner any more.  Copies lie on the link, and the proxy may write another one.  So the
  invariant follows a request until it is `Done` (the proxy will write no more
  requests, since it has forgotten it or only recovers it), `Closed` (none of the
  copies is unread) and `Gone` (and there is no receipt); it says which commands and
  messages may be on the link in terms of these (a recovery is of a closed request, an
  acknowledgement of one whose row or caller has the outcome, and no request follows its
  own acknowledgement on the link), and they survive every step (`Keeps`).
- `NothingIsSkipped`: `[]NothingSkipped`, what the owner has stored and the proxy has
  not seen reaches it before anything later does.  It needs `StreamInv` on top of
  `HandoffInv`.  The cursor of the proxy, the write in flight and `sent` of the receipt
  are three borders in a receipt's numbers, and nothing stored lies between two of them
  without being on the wire, which keeps the order.  That survives a reconnection only
  because of what surrounds it: a command never asks from above the cursor (`After`); a
  receipt muted by a new connection, whose `sent` is the largest number, is one the
  proxy has asked for or will ask for before it is told (`Asked`); an id that may still
  be admitted has no numbers yet (`Unnumbered`); a receipt nobody wants any more has
  ended.  `Plain` says that exactly the events and responses carry numbers.
- `HandoffKeepsTheAuthority`: `HandoffSpec /\ []NoRefusal => ImplementsTurnAuthority`,
  the refinement.  `NoRefusal` says that no Job is being refused for capacity, which is
  what the disagreement `handoff_replay` needs.  On top of `HandoffInv` it takes
  `TurnsInv`: a turn that runs has a receipt; an outcome stays in the receipt or in the
  proxy until the row has it; while a copy of the request may still be admitted there
  was no turn; and a response on the link is of the turn as it ended.  Every action of
  the handoff is then a step of `TurnAuthority` or changes neither row nor turn.
- `RoomKeepsTheAuthority`: the same with a condition on the constants instead, the one
  `handoff_faults` has: lanes with room for every Job refuse none.

What the theorems assume of the constants are the modules' named assumptions: sets of
names are disjoint, bounds are natural numbers, each limit is at least one where the
code divides or waits on it, ids are finitely many, and no outcome of an execution has
the name of a refusal.  Where a recursive function is needed (the queue's filter, a
batch of acknowledgements), its values are shown by set induction from
`WellFoundedInduction` and the lemma `EveryNumber`.

Only model-checked: every liveness property (out of the prover's reach), so
`JobSettles`, `QueryEnded`, `PendingIsTold`, `ArchivesComplete` and `ProblemIsHandled`;
and the disagreements, whose counterexamples TLC finds.  Every invariant and every
action property that a passing run checks is stated by a theorem.

## 5. Not modelled

Byte sizes, authentication, framing and time-outs of the transport; the upgrade
handover between two execution owners; execution contexts; SQL; everything with
status `not_modelled` in `PROJECT.json`, there with its reason.
`stateServiceProcess.ts` is by its own comment (lines 105-109) kept for fault tests
and not started in production.  Presentation, localisation, telemetry and request
parsing are left out for good: they decide nothing.

Within the components that are modelled:

- *Job registry*: follow-ups, waits, retention, questions in the row.  So not
  covered: questions dropped while a stop goes on (`tools.ts:4067`); the intents an
  archive adds with every refused stop (`tools.ts:2570`, bounded here), and those that
  the peers keep, unused, of a stop whose first transaction was rolled back
  (`tools.ts:4295`).  A row that is not written is one failed statement: not covered is
  a statement after whose error SQLite has taken back the whole transaction by itself,
  as it may with a full disk, while the callback goes on.
- *Connections*: the release that automatic recovery or the retirement of a project
  asks for (`tools.ts:9042`), loads without a turn, a worker started only to find that
  another application holds the conversation, conflicting registrations of
  ephemeral conversations.
- *Relay*: `forgetJob`, the references of follow-ups, the text of a notice.
- *Answers*: questions the model asks the user, drafts, notifications, decision
  cards, approvals, and the rows that go with a deleted project.
- *Recovery*: a retry of a stop behaves as a release; the cursor inside one agent,
  the availability of projects, a lookup that fails for ever
  (`automaticRecovery.ts:458`), what is kept for an agent that is missing, the
  expiry of history, the switch, the 25 ms budget.  No property is about what the
  row says when an inspection confirms the end of an incident whose attempt is
  answered later (`automaticRecovery.ts:271`).
- *Database*: that the lock is created before it is written.  A start that reads it in
  between is refused, and a crash there refuses every later start
  (`stateDatabaseLifecycle.ts:619`); no property is about a start that must succeed.
  Also what each schema step changes.  A restore that ends between moving
  the database aside and placing the snapshot leaves no file, and the next start
  creates an empty one (`stateRecovery.ts:187`): the module has it, but no document
  says what that start should do, so no property is about it.
- *Accounts*: an explicit `CODEX_HOME` (`rememberExplicitHome`), the local policy,
  billing, `from` and `lastActivationResolution` of an activation, and the check
  that the runtime may change before a removal or a logout.
- *Reservations*: attempts with a legacy deadline, joining through
  `applicationLaunchAt`, `force`, a failing write of `lifecycle.json`, restart,
  configure, repair and helper replacement, restarts after a crash, an ordinary
  start that launches, the receipt file of a hand-off, the generations of
  `runtimeProcess.ts`.
- *Gate and stop*: the delayed begin of an ordinary stop that arrives after its own
  cancel (`macosHelperServer.ts:2026`): ordinary calls have no identity to tell it by.
- *Queue*: what an item says.  No property is about which item an eviction takes
  (`scopeFairQueue.ts:59`).

## 6. Plan

Written in the order of importance.

1. Done: the journal, the handoff with `TurnAuthority`, the components of section
   2, and the proofs of section 4.
2. `JobRegistry` against an abstract specification of its own, as `ExecutionHandoff`
   has `TurnAuthority`: a stop gives a Job an end of another kind, so that promise is
   not the same one.  Its two halves are proved as properties (`EndIsTrue`,
   `EndedStaysEnded`).
3. The other half of the questions (the user's own, their notifications and
   drafts), and the follow-ups of a Job.
4. The generations of a runtime (`runtimeProcess.ts`) and the upgrade handover of an
   execution owner, composed with `LifecycleReservations`.
5. Subscriptions and webhook retries of the MCP events; the journal of renames of
   the skill library.
