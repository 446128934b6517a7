-------------------------- MODULE ExecutionHandoff --------------------------
(***************************************************************************)
(* A Job turn from its durable row to its durable outcome, across two      *)
(* processes that may lose their link, restart or exit independently:      *)
(*                                                                         *)
(*   - the controller (the state owner process): the Job rows in SQLite    *)
(*     (src/src/tools.ts) and the proxy of the execution service           *)
(*     (ChildProcessCodexExecutionService of executionServiceProcess.ts);  *)
(*   - the execution owner (runChild of executionServiceProcess.ts), whose *)
(*     receipts are ExecutionJournal;                                      *)
(*   - the authenticated link between them (executionTransport.ts).        *)
(*                                                                         *)
(* The link is a FIFO each way.  When it drops, the controller forgets     *)
(* what it had not read, a prefix of what it wrote still reaches the       *)
(* owner, and the owner notices later, or when the next link replaces it.  *)
(***************************************************************************)
EXTENDS ExecutionJournal, SequencesExt

\* What replyError says of a request: no outcome of an execution is one of these.
Refusals == {"capacity", "worker-lost", "already-acknowledged", "identity-conflict"}

CONSTANTS
    Session,       \* controllerId of each controller process, in order
    Protected,     \* there are protectedThreads, which a replay writes first
    AckWindow,     \* ACK_WINDOW
    AckReserve,    \* ACK_REPLY_RESERVE: window slots kept for replies
    MaxPending,    \* requestLimits.maxPendingRequests
    MaxDrops,      \* bound: link losses
    MaxCrashes,    \* bound: controller restarts
    MaxExits,      \* bound: execution owner exits
    MaxSent        \* bound: unread messages to the owner before an ACK retry

ASSUME HandoffAssumption ==
    /\ Protected \in BOOLEAN
    /\ {AckWindow, AckReserve, MaxPending, MaxDrops, MaxCrashes, MaxExits, MaxSent} \subseteq Nat
    /\ AckReserve < AckWindow
    /\ Session \in [1 .. MaxCrashes + 1 -> Controllers]
    /\ \A m, n \in 1 .. MaxCrashes + 1 : Session[m] = Session[n] => m = n
    /\ Prints # {}
    /\ Outcomes \cap ({"absent", "running", "none", "lost", "unavailable"} \cup Refusals) = {}

Jobs == Retained
Queries == Ids \ Retained

VARIABLES
    row,        \* Job rows: "absent", "running" or a terminal outcome (durable)
    assigned,   \* Jobs whose row holds the full worker assignment (durable)
    turn,       \* what the App Server did with the Job (observed by nobody)
    query,      \* queries: "new", "sent" (once: ids are random), "refused" or "answered"
    alive,      \* the execution owner process runs
    peer,       \* controller side of the link: "down", "open" or "ready"
    greeted,    \* this.generation is set
    pending,    \* this.pending, in insertion order
    recovering, \* pending entries whose message is "recover"
    cursor,     \* sequence of a pending entry
    holding,    \* pending entries that have seen their assignment
    released,   \* releasedReplies, in insertion order
    acks,       \* acknowledgements, in insertion order
    inFlight,   \* acknowledgementsInFlight
    results,    \* retainedResults: delivered results the owner still holds
    settling,   \* Job -> delivered outcome, until its row commits
    replaying,  \* a replay of pending requests is going on
    replayed,   \* what it has visited
    toOwner,    \* written to the owner and not read
    faults      \* link losses, controller restarts and owner exits so far

durable == <<row, assigned>>
proxy == <<pending, recovering, cursor, holding, released, acks, inFlight, results, settling>>
link == <<peer, greeted, replaying, replayed, toOwner>>
handoffVars == <<journalVars, durable, proxy, link, turn, query, alive, faults>>

Connected == peer # "down" /\ greeted   \* child?.connected && this.generation
SendTo(kind, id, after) == [kind |-> kind, id |-> id, after |-> after]
Has(s, x) == \E i \in DOMAIN s : s[i] = x
Add(s, x) == IF Has(s, x) THEN s ELSE Append(s, x)
Without(s, x) == IF Has(s, x) THEN RemoveAt(s, CHOOSE i \in DOMAIN s : s[i] = x) ELSE s

-----------------------------------------------------------------------------
(* sendNextAcknowledgement: release replies first, then commits, within    *)
(* the window and its reserve.                                             *)
AckOne(rel, b, id) ==
    IF \/ Cardinality(b.flight) >= AckWindow
       \/ id \in b.flight
       \/ /\ ~Has(rel, id)
          /\ Cardinality({x \in b.flight : ~Has(rel, x)}) >= AckWindow - AckReserve
    THEN b
    ELSE [flight |-> b.flight \cup {id}, out |-> Append(b.out, SendTo("acknowledge", id, 0))]

\* batch[n]: after the first n of them.
AckBatches(rel, ids, flight) ==
    LET batch[n \in 0 .. Len(ids)] ==
          IF n = 0 THEN [flight |-> flight, out |-> <<>>] ELSE AckOne(rel, batch[n - 1], ids[n])
    IN  batch
AckBatch(rel, ack, flight) == AckBatches(rel, rel \o ack, flight)[Len(rel \o ack)]

\* The new acknowledgement state, and what is written after `out` when the link is up.
SendAcks(up, rel, ack, flight, out) ==
    LET b == IF up THEN AckBatch(rel, ack, flight) ELSE [flight |-> flight, out |-> <<>>]
    IN  released' = rel /\ acks' = ack /\ inFlight' = b.flight /\ toOwner' = out \o b.out

NoAcks == UNCHANGED <<released, acks, inFlight>>

-----------------------------------------------------------------------------
HandoffInit ==
    /\ JournalInit
    /\ row = [j \in Jobs |-> "absent"]
    /\ assigned = {}
    /\ turn = [j \in Jobs |-> "none"]
    /\ query = [r \in Queries |-> "new"]
    /\ alive = TRUE
    /\ peer = "down" /\ greeted = FALSE
    /\ pending = <<>> /\ recovering = {} /\ cursor = [id \in Ids |-> 0] /\ holding = {}
    /\ released = <<>> /\ acks = <<>> /\ inFlight = {} /\ results = {}
    /\ settling = <<>>
    /\ replaying = FALSE /\ replayed = {}
    /\ toOwner = <<>>
    /\ faults = [drops |-> 0, crashes |-> 0, exits |-> 0]

Settling(id) == id \in DOMAIN settling
Deliver(id, outcome) == settling' = [x \in DOMAIN settling \cup {id} |-> IF x = id THEN outcome ELSE settling[x]]
Controller == Session[faults.crashes + 1]

(* request(): refused without a link, or registered and written once *)
Dispatch(id, out) ==
    /\ pending' = Append(pending, id)
    /\ toOwner' = Append(out, SendTo("request", id, 0))
    /\ UNCHANGED <<recovering, cursor, holding, released, results, settling>>

\* Jobs whose commit acknowledgement resumeAuthorizedRecoveries can send again.
Unacknowledged == {j \in results \cap assigned : row[j] \notin {"absent", "running"}}
AckAll == SetToSeq({j \in Unacknowledged : ~Has(acks, j)})

(* codex_task: acknowledge settled Jobs again, persist the row, dispatch *)
StartJob(j) ==
    /\ row[j] = "absent"
    /\ row' = [row EXCEPT ![j] = "running"]
    /\ LET again == IF Connected /\ Unacknowledged # {} THEN acks \o AckAll ELSE acks
           b == IF Connected /\ Unacknowledged # {} THEN AckBatch(released, again, inFlight)
                ELSE [flight |-> inFlight, out |-> <<>>]
       IN  /\ acks' = again /\ inFlight' = b.flight
           /\ IF Connected /\ Len(pending) < MaxPending
              THEN Dispatch(j, toOwner \o b.out)
              ELSE /\ Deliver(j, "unavailable")
                   /\ toOwner' = toOwner \o b.out
                   /\ UNCHANGED <<pending, recovering, cursor, holding, released, results>>
    /\ UNCHANGED <<journalVars, assigned, turn, query, alive, peer, greeted, replaying, replayed, faults>>

StartQuery(r) ==
    /\ query[r] = "new"
    /\ query' = [query EXCEPT ![r] = "sent"]
    /\ Connected /\ Len(pending) < MaxPending
    /\ Dispatch(r, toOwner)
    /\ UNCHANGED <<journalVars, durable, turn, alive, peer, greeted, replaying, replayed,
                   acks, inFlight, faults>>

(* settleExecution, then acknowledgeSettledExecution *)
Commit(j) ==
    /\ Settling(j)
    /\ row' = [row EXCEPT ![j] = settling[j]]
    /\ settling' = [x \in DOMAIN settling \ {j} |-> settling[x]]
    /\ IF j \in assigned \cap results /\ Connected
       THEN SendAcks(Connected, released, Add(acks, j), inFlight, toOwner)
       ELSE UNCHANGED toOwner /\ NoAcks
    /\ UNCHANGED <<journalVars, assigned, turn, query, alive, peer, greeted, replaying, replayed,
                   pending, recovering, cursor, holding, results, faults>>

(* The acknowledgement timer: the same identities again *)
RetryAcks ==
    /\ acks # <<>> /\ Connected
    /\ Len(toOwner) + Len(acks) <= MaxSent
    /\ SendAcks(Connected, released, acks, {}, toOwner)
    /\ UNCHANGED <<journalVars, durable, turn, query, alive, peer, greeted, replaying, replayed,
                   pending, recovering, cursor, holding, results, settling, faults>>

-----------------------------------------------------------------------------
(* The controller reads the link: spawnAndWait's handler and onMessage *)

Incoming(kind) == peer # "down" /\ wire # <<>> /\ Head(wire).kind = kind
Read == /\ wire' = Tail(wire)
        /\ UNCHANGED <<receipts, order, acked, aux, writing, burst, linked, controller>>
Msg == Head(wire)

NeedsReplayNever == FALSE
NeedsReplay == Protected \/ Range(pending) \ Range(released) # {}

GetReady ==
    /\ Incoming("ready") /\ Read
    /\ peer' = "ready" /\ greeted' = TRUE
    /\ SendAcks(TRUE, released, acks, {}, toOwner)
    /\ replaying' = NeedsReplay
    /\ replayed' = {}
    /\ UNCHANGED <<durable, turn, query, alive, pending, recovering, cursor, holding, results,
                   settling, faults>>

\* replayControlState: one pending request per write, in the live order of the
\* Map, so a request made during the replay is visited too.
ReplayNext ==
    /\ replaying /\ peer = "ready"
    /\ LET left == {i \in DOMAIN pending : pending[i] \notin replayed /\ ~Has(released, pending[i])}
           id == pending[CHOOSE i \in left : \A k \in left : i <= k]
       IN  IF left = {}
           THEN replaying' = FALSE /\ UNCHANGED <<replayed, toOwner>>
           ELSE /\ replayed' = replayed \cup {id}
                /\ toOwner' = Append(toOwner,
                     SendTo(IF id \in recovering THEN "recover" ELSE "request", id, cursor[id]))
                /\ UNCHANGED replaying
    /\ UNCHANGED <<journalVars, durable, proxy, turn, query, alive, peer, greeted, faults>>

Take(id) == pending' = Without(pending, id)

\* What the caller of a query is told when its reply is delivered.
Told(state) == IF state = "sent" THEN "answered" ELSE state

GetAcknowledged ==
    /\ Incoming("acknowledged") /\ Read
    /\ LET id == Msg.id
       IN  /\ results' = results \ {id}
           /\ IF Has(released, id)
              THEN Take(id) /\ query' = [query EXCEPT ![id] = Told(@)]
              ELSE UNCHANGED <<pending, query>>
           /\ SendAcks(Connected, Without(released, id), Without(acks, id), inFlight \ {id}, toOwner)
    /\ UNCHANGED <<durable, turn, alive, peer, greeted, replaying, replayed, recovering, cursor,
                   holding, settling, faults>>

Relevant(id) == Has(pending, id) /\ ~Has(released, id)
Stale == Msg.seq # 0 /\ Msg.seq <= cursor[Msg.id]

GetAssignment ==
    /\ Incoming("event") /\ Read
    /\ Relevant(Msg.id) /\ ~Stale
    /\ holding' = holding \cup {Msg.id}
    /\ assigned' = assigned \cup {Msg.id}
    /\ cursor' = [cursor EXCEPT ![Msg.id] = Msg.seq]
    /\ UNCHANGED <<row, turn, query, alive, peer, greeted, replaying, replayed, toOwner, pending,
                   recovering, released, acks, inFlight, results, settling, faults>>

\* A Job is acknowledged after its commit, everything else as it is delivered.
AcknowledgedLaterNever(id) == FALSE
AcknowledgedLater(id) == id \in Jobs

GetResponse ==
    /\ Incoming("response") \/ Incoming("error")
    /\ Read
    /\ Relevant(Msg.id) /\ ~Stale
    /\ IF AcknowledgedLater(Msg.id)
       THEN /\ Take(Msg.id)
            /\ Deliver(Msg.id, Msg.outcome)
            /\ results' = IF Msg.id \in holding THEN results \cup {Msg.id} ELSE results
            /\ UNCHANGED <<toOwner, query>> /\ NoAcks
       ELSE /\ SendAcks(Connected, Append(released, Msg.id), Add(acks, Msg.id), inFlight, toOwner)
            /\ query' = IF Msg.outcome = "capacity" THEN [query EXCEPT ![Msg.id] = "refused"] ELSE query
            /\ UNCHANGED <<pending, results, settling>>
    /\ UNCHANGED <<durable, turn, alive, peer, greeted, replaying, replayed, recovering,
                   cursor, holding, faults>>

IgnoreMessage ==
    /\ Incoming("event") \/ Incoming("response") \/ Incoming("error")
    /\ Read
    /\ ~Relevant(Msg.id) \/ Stale
    /\ UNCHANGED <<durable, proxy, link, turn, query, alive, faults>>

-----------------------------------------------------------------------------
(* The owner reads the link: the message handler of runChild *)

OwnerReads(kind) == alive /\ linked /\ toOwner # <<>> /\ Head(toOwner).kind = kind
OwnerRead == toOwner' = Tail(toOwner) /\ UNCHANGED <<durable, proxy, peer, greeted, replaying, replayed,
                                                     query, alive, faults>>

\* An id is always sent with the same operation and arguments.
Fingerprint == CHOOSE p \in Prints : TRUE

OwnerAdmits ==
    /\ OwnerReads("request") /\ OwnerRead
    /\ LET id == Head(toOwner).id
       IN  /\ Admit(id, Head(toOwner).after, Fingerprint)
           /\ turn' = IF AdmitsNew(id) /\ id \in Jobs THEN [turn EXCEPT ![id] = "running"] ELSE turn

OwnerRecovers ==
    /\ OwnerReads("recover") /\ OwnerRead
    /\ Recover(Head(toOwner).id, Head(toOwner).after)
    /\ UNCHANGED turn

OwnerAcknowledges ==
    /\ OwnerReads("acknowledge") /\ OwnerRead
    /\ Acknowledge(Head(toOwner).id)
    /\ UNCHANGED turn

(* executeChildRequest: the worker is assigned, the execution settles *)
Assign(j) ==
    /\ alive /\ j \in Jobs
    /\ j \in Known /\ "assignment" \notin DOMAIN receipts[j].events
    /\ SendAssignment(j, FALSE)
    /\ UNCHANGED <<durable, proxy, link, turn, query, alive, faults>>

Finish(id, outcome) ==
    /\ alive
    /\ SendResponse(id, outcome, FALSE) \/ SendUnwantedResponse(id)
    /\ turn' = IF id \in Jobs THEN [turn EXCEPT ![id] = outcome] ELSE turn
    /\ UNCHANGED <<durable, proxy, link, query, alive, faults>>

OwnerWrites ==
    /\ alive
    /\ ReceiptWritten \/ AuxWritten \/ PumpLater
    /\ UNCHANGED <<durable, proxy, link, turn, query, alive, faults>>

-----------------------------------------------------------------------------
(* The link *)

Establish ==
    /\ peer = "down" /\ alive
    /\ Connect(Controller, <<Message("ready", None, None, 0, {}, None)>>)
    /\ peer' = "open" /\ toOwner' = <<>>
    /\ UNCHANGED <<durable, proxy, greeted, replaying, replayed, turn, query, alive, faults>>

\* The controller's end closes; n messages it wrote are on their way.
Lost(n) ==
    /\ peer' = "down" /\ replaying' = FALSE /\ replayed' = {}
    /\ toOwner' = SubSeq(toOwner, 1, n)
    /\ wire' = <<>>
    /\ UNCHANGED <<receipts, order, acked, aux, writing, burst, linked, controller>>

LinkDrops ==
    /\ peer # "down" /\ faults.drops < MaxDrops
    /\ \E n \in 0 .. Len(toOwner) : Lost(n)
    /\ faults' = [faults EXCEPT !.drops = @ + 1]
    /\ UNCHANGED <<durable, proxy, greeted, turn, query, alive>>

\* onAssigned throws (the row could not be written): the link is dropped and the
\* cursor stays, so the assignment is read again.
AssignmentRefused ==
    /\ Incoming("event") /\ Relevant(Msg.id) /\ ~Stale
    /\ faults.drops < MaxDrops
    /\ holding' = holding \cup {Msg.id}
    /\ \E n \in 0 .. Len(toOwner) : Lost(n)
    /\ faults' = [faults EXCEPT !.drops = @ + 1]
    /\ UNCHANGED <<durable, pending, recovering, cursor, released, acks, inFlight, results, settling,
                   greeted, turn, query, alive>>

OwnerNotices ==
    /\ peer = "down" /\ linked /\ alive
    /\ Disconnect
    /\ toOwner' = <<>>
    /\ UNCHANGED <<durable, proxy, peer, greeted, replaying, replayed, turn, query, alive, faults>>

-----------------------------------------------------------------------------
(* Restarts *)

\* The controller process ends and another loads the rows: loadJobs marks the
\* running ones, resumeAuthorizedRecoveries subscribes to them.
ControllerRestarts ==
    /\ faults.crashes < MaxCrashes
    /\ LET running == SetToSeq({j \in Jobs : row[j] = "running"})
       IN  /\ pending' = running
           /\ recovering' = {j \in Jobs : row[j] = "running"}
    /\ cursor' = [id \in Ids |-> 0] /\ holding' = {}
    /\ released' = <<>> /\ acks' = <<>> /\ inFlight' = {} /\ results' = {} /\ settling' = <<>>
    /\ greeted' = FALSE
    /\ IF peer = "down"
       THEN UNCHANGED <<journalVars, peer, replaying, replayed, toOwner>>
       ELSE \E n \in 0 .. Len(toOwner) : Lost(n)
    /\ turn' = [j \in Jobs |-> IF Settling(j) /\ j \notin Known /\ turn[j] # "none"
                              THEN "lost" ELSE turn[j]]
    /\ faults' = [faults EXCEPT !.crashes = @ + 1]
    /\ UNCHANGED <<durable, query, alive>>

\* The execution owner exits: its receipts, turns and links are gone.
OwnerExits ==
    /\ alive /\ faults.exits < MaxExits
    /\ alive' = FALSE
    /\ receipts' = Empty /\ order' = Empty /\ acked' = <<>> /\ aux' = <<>> /\ writing' = NoWrite
    /\ burst' = 0 /\ linked' = FALSE /\ controller' = None /\ wire' = <<>>
    /\ toOwner' = <<>> /\ peer' = "down" /\ replaying' = FALSE /\ replayed' = {}
    /\ turn' = [j \in Jobs |-> IF turn[j] = "none" \/ row[j] # "running" \/ Settling(j)
                              THEN turn[j] ELSE "lost"]
    /\ faults' = [faults EXCEPT !.exits = @ + 1]
    /\ UNCHANGED <<durable, proxy, greeted, query>>

\* What onExit takes back from every request and acknowledgement.
ForgottenButPending ==
    /\ released' = <<>> /\ acks' = <<>> /\ inFlight' = {} /\ results' = {}
    /\ UNCHANGED <<pending, recovering>>
ForgottenAll ==
    /\ released' = <<>> /\ acks' = <<>> /\ inFlight' = {} /\ results' = {}
    /\ pending' = <<>> /\ recovering' = {}

\* finishReleasedReplies: the replies are authoritative, only their slot waited.
\* onExit rejects everything else; then a new owner is spawned on a clean endpoint.
SeeExit ==
    /\ ~alive /\ peer = "down"
    /\ alive' = TRUE
    /\ greeted' = FALSE
    /\ query' = [r \in Queries |-> IF Has(pending, r) THEN Told(query[r]) ELSE query[r]]
    /\ ForgottenAll
    /\ settling' = [j \in DOMAIN settling \cup (Range(pending) \cap Jobs) |->
                      IF j \in DOMAIN settling THEN settling[j] ELSE "worker-lost"]
    /\ UNCHANGED <<journalVars, durable, turn, cursor, holding, peer, replaying, replayed, toOwner, faults>>

-----------------------------------------------------------------------------
ControllerGets ==
    GetReady \/ GetAcknowledged \/ GetAssignment \/ GetResponse \/ IgnoreMessage
OwnerHandles == OwnerAdmits \/ OwnerRecovers \/ OwnerAcknowledges

HandoffNext ==
    \/ \E j \in Jobs : StartJob(j) \/ Commit(j) \/ Assign(j)
    \/ \E r \in Queries : StartQuery(r)
    \/ \E id \in Ids, o \in Outcomes : Finish(id, o)
    \/ RetryAcks
    \/ ControllerGets \/ ReplayNext
    \/ OwnerHandles \/ OwnerWrites
    \/ Establish \/ LinkDrops \/ AssignmentRefused \/ OwnerNotices
    \/ ControllerRestarts \/ OwnerExits \/ SeeExit

HandoffSpec == HandoffInit /\ [][HandoffNext]_handoffVars

\* What the runtimes do keep doing: read and write sockets, run callbacks and
\* timers, retry a failed commit, reconnect.  Faults, new work and the choice of
\* an outcome are nobody's duty, except that a turn ends.
Fairness ==
    /\ WF_handoffVars(ControllerGets) /\ WF_handoffVars(ReplayNext)
    /\ WF_handoffVars(OwnerHandles) /\ WF_handoffVars(OwnerWrites)
    /\ WF_handoffVars(Establish)
    /\ WF_handoffVars(SeeExit)
    /\ WF_handoffVars(RetryAcks)
    /\ \A j \in Jobs : WF_handoffVars(Commit(j))
    /\ \A id \in Ids : WF_handoffVars(\E o \in Outcomes : Finish(id, o))

FairSpec == HandoffSpec /\ Fairness

-----------------------------------------------------------------------------
(* The promise to the rest of the Bridge *)

RowOf(j) == IF j \in DOMAIN row THEN row[j] ELSE "absent"
Settled(j) == RowOf(j) \notin {"absent", "running"}

Turns == INSTANCE TurnAuthority
    WITH Results <- Outcomes, Failures <- {"unavailable", "worker-lost", "capacity"}

\* A turn begins at most once, only for a running row, and the row ends with
\* the turn's exact outcome or with a failure when no turn can have one:
\* through lost, repeated and reordered requests, acknowledgements and replies.
ImplementsTurnAuthority == Turns!TurnSpec

\* The owner forgets a Job's outcome only after its row has committed it
\* (docs/state-execution-isolation.md: "Results are acknowledged only after a
\* durable terminal commit").
AcknowledgedIsCommitted == \A j \in Jobs : Tombstoned(j) => Settled(j)

\* A row that says the worker was lost is final: no live owner has, or will
\* have, a receipt of that Job (recover() against a request still on its way).
LostIsLost == \A j \in Jobs : row[j] = "worker-lost" => j \notin Known

\* A caller that has its reply has also given its slot back, so a bounded caller
\* cannot pile up receipts (the comment at executionServiceProcess.ts:1042).  A
\* refusal for capacity took no slot, and says nothing of a second copy of the
\* request (NoTurnAfterFailure).
AnsweredIsReleased == \A r \in Queries : query[r] = "answered" => r \notin Known

\* A request that waits for the owner's events will see each of them: what its
\* cursor has not passed is on the wire in order, still unsent, or asked for
\* again (connect() mutes every receipt; replay, recover and the callback of a
\* write all move the same cursor).
Asked(id) ==
    \/ replaying /\ id \notin replayed
    \/ \E i \in DOMAIN toOwner : toOwner[i].kind \in {"request", "recover"} /\ toOwner[i].id = id
OnWire(id, seq) == {i \in DOMAIN wire : wire[i].id = id /\ wire[i].seq = seq}
NothingSkipped ==
    \A id \in Known :
        peer = "ready" /\ linked /\ Relevant(id) /\ ~Asked(id) =>
          LET seqs == {s \in {receipts[id].events[k].seq : k \in DOMAIN receipts[id].events}
                                \cup {receipts[id].terminalSeq} : s > cursor[id]}
          IN  \A s \in seqs :
                \/ s > receipts[id].sent /\ ~(writing.id = id /\ writing.seq = s)
                \/ /\ OnWire(id, s) # {}
                   /\ \A t \in seqs : t > s => \A i \in OnWire(id, t) : \E h \in OnWire(id, s) : h < i

\* A Job whose row says its execution was refused is not executed: the refusal
\* names a capacity error the caller may retry (executionJournal.ts:69-74).
NoTurnAfterFailure == \A j \in Jobs : row[j] \in {"capacity", "unavailable"} => turn[j] = "none"

\* Every admitted Job ends, whatever was lost on the way.
JobSettles == \A j \in Jobs : RowOf(j) = "running" ~> Settled(j)

\* Every receipt of a settled Job leaves the journal and frees its slot
\* (docs/execution-authority-and-evidence.md:40, executionJournal.ts:72).
ReceiptReleased == \A j \in Jobs : (Settled(j) /\ j \in Known) ~> j \notin Known
=============================================================================
