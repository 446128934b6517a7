------------------------- MODULE AutomaticRecovery -------------------------
(* automaticRecovery.ts: the problems the bridge may fix by itself (an agent  *)
(* whose runtime is unknown is inspected again, an idle connection after a    *)
(* failed Job is released), the journal that keeps how often it tried, and    *)
(* the controller that walks the agents in small pages.  The bridge may end   *)
(* between the commit of an attempt and its answer.                           *)
EXTENDS Naturals, FiniteSets, Absence

CONSTANTS
    Agents,       \* 1..n, in the order of their identifiers
    Rechecks,     \* agents whose problem is an unknown runtime; the others' is a connection to release
    Attempts,     \* AUTOMATIC_RECOVERY_ATTEMPTS
    DueLimit,     \* agents the journal names as due per sweep (4)
    DueSends,     \* attempts of a sweep that due agents may use (3)
    Sends,        \* attempts of a sweep (4)
    SweepTargets, \* agents of a sweep (RECOVERY_WORK_LIMITS.maxTargets)
    DirtyLimit,   \* agents scheduled by name (128)
    MaxIncidents, \* bound: incidents per agent
    MaxRequests,  \* bound: agents scheduled by name, in all
    MaxEnds       \* bound: ends of the bridge, and lookups of candidates that fail

\* The rows of automatic_recovery: an incident, what became of it and its attempts.
IncidentRows == [state : {"retrying", "resolved", "blocked"}, attempts : 0 .. Attempts, due : BOOLEAN]

ASSUME RecoveryAssumption ==
    /\ None \notin IncidentRows
    /\ Agents = 1 .. Cardinality(Agents) /\ Rechecks \subseteq Agents
    /\ {Attempts, DueLimit, DueSends, DirtyLimit, MaxIncidents} \subseteq Nat \ {0} /\ {MaxRequests, MaxEnds} \subseteq Nat
    /\ DueSends < Sends /\ DueLimit < SweepTargets

VARIABLES
    problem,  \* agents that have their problem now
    incident, \* number of the incident of an agent: its recovery key; 0 before the first
    active,   \* automatic_recovery_incidents.active of the inspected agents
    entry,    \* automatic_recovery: the row of every incident, None before its first commit
    sweep,    \* the sweep going on (pending)
    agentCursor, \* agentCursor: the last agent of a page that is dealt with
    asked,    \* scheduledAgents, and All for fullScanScheduled: sweeps still to be asked for
    calls,    \* attempts dispatched for an incident
    asks, ends

recoveryVars == <<problem, incident, active, entry, sweep, agentCursor, asked, calls, asks, ends>>

All == 0
NoSweep == [at |-> "off", of |-> "none", due |-> {}, named |-> {}, page |-> {}, agent |-> None, key |-> None,
            attempt |-> 0, sent |-> 0, taken |-> 0, spent |-> FALSE]
Incidents == 1 .. MaxIncidents

RecoveryInit ==
    /\ problem = [a \in Agents |-> FALSE] /\ incident = [a \in Agents |-> 0]
    /\ active = [a \in Agents |-> FALSE]
    /\ entry = [a \in Agents |-> [i \in Incidents |-> None]]
    /\ sweep = NoSweep /\ agentCursor = 0 /\ asked = {All}
    /\ calls = [a \in Agents |-> [i \in Incidents |-> 0]] /\ asks = 0 /\ ends = 0

--------------------------------------------------------------------------
(* The journal: AutomaticRecoveryStore. *)

Observed == [state |-> "retrying", attempts |-> 0, due |-> TRUE]
Row(a) == IF incident[a] = 0 THEN None ELSE entry[a][incident[a]]
IsIn(r, state) == r # None /\ r.state = state
CanBegin(r) == r = None \/ (r.state = "retrying" /\ r.attempts < Attempts /\ r.due)
BegunUncounted(r) == [state |-> "retrying", attempts |-> IF r = None THEN 0 ELSE r.attempts, due |-> FALSE]
Begun(r) == [state |-> "retrying", attempts |-> IF r = None THEN 1 ELSE r.attempts + 1, due |-> FALSE]

\* finish: only the attempt on record, and only while it is still open.
FinishedAttempt(r, attempt, result) ==
    IF IsIn(r, "retrying") /\ r.attempts = attempt
    THEN [r EXCEPT !.state = CASE result = "confirmed" -> "resolved"
                              [] result = "final" \/ attempt >= Attempts -> "blocked"
                              [] OTHER -> "retrying"]
    ELSE r

\* reconcileInterrupted: the last attempt was committed and never answered.
ReconciledNot(rows) == rows
Reconciled(rows) ==
    [a \in Agents |-> [i \in Incidents |->
        IF IsIn(rows[a][i], "retrying") /\ rows[a][i].attempts >= Attempts
        THEN [rows[a][i] EXCEPT !.state = "blocked"] ELSE rows[a][i]]]

DueAgents(rows) ==
    {a \in Agents : \E i \in Incidents : IsIn(rows[a][i], "retrying") /\ rows[a][i].attempts < Attempts /\ rows[a][i].due}

--------------------------------------------------------------------------
(* The world: problems come and go. *)

\* A failed Job leaves its idle connection: a release has the key of that Job.
Arises(a) ==
    /\ ~problem[a]
    /\ IF a \in Rechecks THEN UNCHANGED incident
       ELSE incident[a] < MaxIncidents /\ incident' = [incident EXCEPT ![a] = @ + 1]
    /\ problem' = [problem EXCEPT ![a] = TRUE]
    /\ UNCHANGED <<active, entry, sweep, agentCursor, asked, calls, asks, ends>>

Heals(a) ==
    /\ problem[a] /\ problem' = [problem EXCEPT ![a] = FALSE]
    /\ UNCHANGED <<incident, active, entry, sweep, agentCursor, asked, calls, asks, ends>>

\* observeRecheck: a fresh inspection opens an incident or confirms its end.
ObserveRecheck(a) ==
    /\ a \in Rechecks
    /\ IF problem[a]
       THEN /\ ~active[a] /\ incident[a] < MaxIncidents
            /\ incident' = [incident EXCEPT ![a] = @ + 1]
            /\ entry' = [entry EXCEPT ![a][incident[a] + 1] = Observed]
       ELSE /\ active[a] /\ UNCHANGED incident
            /\ entry' = [entry EXCEPT ![a][incident[a]].state = "resolved"]
    /\ active' = [active EXCEPT ![a] = problem[a]]
    /\ UNCHANGED <<problem, sweep, agentCursor, asked, calls, asks, ends>>

BackoffEnds(a, i) ==
    /\ entry[a][i] # None /\ ~entry[a][i].due
    /\ entry' = [entry EXCEPT ![a][i].due = TRUE]
    /\ UNCHANGED <<problem, incident, active, sweep, agentCursor, asked, calls, asks, ends>>

--------------------------------------------------------------------------
(* Scheduling: a request that meets a sweep joins it, whatever it has passed. *)

Schedule(a) ==
    /\ asks < MaxRequests /\ asks' = asks + 1
    /\ asked' = asked \cup {IF Cardinality(asked \ {All}) < DirtyLimit THEN a ELSE All}
    /\ UNCHANGED <<problem, incident, active, entry, sweep, agentCursor, calls, ends>>

\* runSweep: every agent the journal names as due, as many as it may name.
Starts(of) ==
    \E D \in SUBSET DueAgents(Reconciled(entry)) :
        /\ of = All => Cardinality(D) = IF Cardinality(DueAgents(Reconciled(entry))) < DueLimit
                                        THEN Cardinality(DueAgents(Reconciled(entry))) ELSE DueLimit
        /\ of # All => D = {}
        /\ entry' = Reconciled(entry)
        /\ sweep' = [NoSweep EXCEPT !.at = "next", !.of = IF of = All THEN "due" ELSE "one",
                                    !.due = D, !.named = D, !.page = IF of = All THEN {} ELSE {of}]

TimerSweeps ==
    /\ sweep.at = "off" /\ Starts(All)
    /\ UNCHANGED <<problem, incident, active, agentCursor, asked, calls, asks, ends>>

AskedSweeps(x) ==
    /\ x \in asked /\ asked' = asked \ {x}
    /\ IF sweep.at = "off" THEN Starts(x) ELSE UNCHANGED <<entry, sweep>>
    /\ UNCHANGED <<problem, incident, active, agentCursor, calls, asks, ends>>

--------------------------------------------------------------------------
(* A sweep: the due agents, then a page of all of them behind the agentCursor. *)

SmallestFew(S, k) == {a \in S : Cardinality({b \in S : b < a}) < k}
PageUnwrapped(from, k) == SmallestFew({a \in Agents : a > from}, k)
Page(from, k) ==
    LET after == {a \in Agents : a > from}
    IN  SmallestFew(IF after = {} THEN Agents ELSE after, k)
PageRoom == IF SweepTargets > sweep.taken THEN SweepTargets - sweep.taken ELSE 1

Surveyed(s, a) == [s EXCEPT !.at = "read", !.agent = a, !.taken = @ + 1]

NextDue ==
    /\ sweep.at = "next" /\ sweep.of = "due"
    /\ IF sweep.due # {} /\ sweep.sent < DueSends /\ sweep.taken < SweepTargets
       THEN \E a \in sweep.due : sweep' = Surveyed([sweep EXCEPT !.due = @ \ {a}], a)
       ELSE sweep' = [sweep EXCEPT !.of = "page", !.page = Page(agentCursor, PageRoom)]
    /\ UNCHANGED <<problem, incident, active, entry, agentCursor, asked, calls, asks, ends>>

\* The page passes over the agents named as due, surveyed or not.
NextOfPage ==
    /\ sweep.at = "next" /\ sweep.of \in {"page", "one"}
    /\ IF sweep.page # {} /\ sweep.sent < Sends /\ sweep.taken < SweepTargets
       THEN \E a \in SmallestFew(sweep.page, 1) :
                LET rest == [sweep EXCEPT !.page = @ \ {a}] IN
                \/ /\ a \in sweep.named /\ sweep' = [rest EXCEPT !.taken = @ + 1]
                   /\ agentCursor' = IF sweep.of = "page" THEN a ELSE agentCursor
                \/ a \notin sweep.named /\ sweep' = Surveyed(rest, a) /\ UNCHANGED agentCursor
       ELSE sweep' = NoSweep /\ UNCHANGED agentCursor
    /\ UNCHANGED <<problem, incident, active, entry, asked, calls, asks, ends>>

\* candidates, with recheckCandidate: the first discovery opens the incident.
Discovers(a) == a \in Rechecks /\ incident[a] = 0 /\ problem[a]
Candidate(a) == Discovers(a) \/ ((IF a \in Rechecks THEN active[a] ELSE problem[a]) /\ ~IsIn(Row(a), "blocked"))

ReadCandidates ==
    /\ sweep.at = "read"
    /\ LET a == sweep.agent
       IN  /\ IF Discovers(a)
              THEN /\ incident' = [incident EXCEPT ![a] = 1] /\ active' = [active EXCEPT ![a] = TRUE]
                   /\ entry' = [entry EXCEPT ![a][1] = Observed]
              ELSE UNCHANGED <<incident, active, entry>>
           /\ sweep' = [sweep EXCEPT !.at = "survey",
                                     !.key = IF Candidate(a) THEN incident'[a] ELSE None]
    /\ UNCHANGED <<problem, agentCursor, asked, calls, asks, ends>>

\* The lookup throws: the sweep is over, and the cursor has not passed the agent.
CandidatesFail ==
    /\ sweep.at = "read" /\ sweep' = NoSweep
    /\ ends < MaxEnds /\ ends' = ends + 1
    /\ UNCHANGED <<problem, incident, active, entry, agentCursor, asked, calls, asks>>

\* The survey of an agent is done.
CursorPasses == agentCursor' = IF sweep.of = "page" THEN sweep.agent ELSE agentCursor

\* survey, after its await: what is no candidate any more ends, and the
\* candidate begins: the attempt is committed before it is dispatched.
Dropped(a) == [i \in Incidents |-> IF i = sweep.key \/ entry[a][i] = None THEN entry[a][i]
                                   ELSE FinishedAttempt(entry[a][i], entry[a][i].attempts, "final")]
Deferred(a) == a \notin Rechecks /\ sweep.spent
Survey ==
    /\ sweep.at = "survey"
    /\ LET a == sweep.agent
           k == sweep.key
       IN  IF k # None /\ CanBegin(entry[a][k]) /\ ~Deferred(a)
           THEN /\ entry' = [entry EXCEPT ![a] = [Dropped(a) EXCEPT ![k] = Begun(@)]]
                /\ calls' = [calls EXCEPT ![a][k] = @ + 1]
                /\ sweep' = [sweep EXCEPT !.at = "try", !.attempt = Begun(entry[a][k]).attempts,
                                          !.sent = @ + 1, !.spent = @ \/ a \notin Rechecks]
                /\ UNCHANGED agentCursor
           ELSE /\ entry' = [entry EXCEPT ![a] = Dropped(a)]
                /\ sweep' = [sweep EXCEPT !.at = "next", !.agent = None, !.key = None]
                /\ CursorPasses /\ UNCHANGED calls
    /\ UNCHANGED <<problem, incident, active, asked, asks, ends>>

\* The attempt answers; a confirmed one has fixed the problem and closes the incident.
AttemptAnswers(result) ==
    /\ sweep.at = "try"
    /\ LET a == sweep.agent
           k == sweep.key
       IN  /\ entry' = [entry EXCEPT ![a][k] = FinishedAttempt(@, sweep.attempt, result)]
           /\ problem' = [problem EXCEPT ![a] = @ /\ result # "confirmed"]
           /\ active' = [active EXCEPT ![a] = @ /\ ~(result = "confirmed" /\ incident[a] = k /\ IsIn(entry'[a][k], "resolved"))]
    /\ sweep' = [sweep EXCEPT !.at = "next", !.agent = None, !.key = None, !.attempt = 0]
    /\ CursorPasses /\ UNCHANGED <<incident, asked, calls, asks, ends>>

\* The bridge ends and starts again: start() reconciles and schedules a full scan.
RecoveryRestarts ==
    /\ ends < MaxEnds /\ ends' = ends + 1
    /\ entry' = Reconciled(entry)
    /\ sweep' = NoSweep /\ agentCursor' = 0 /\ asked' = {All}
    /\ UNCHANGED <<problem, incident, active, calls, asks>>

--------------------------------------------------------------------------
Answers3 == {"confirmed", "failed", "final"}

RecoveryNext ==
    \/ \E a \in Agents : Arises(a) \/ Heals(a) \/ ObserveRecheck(a) \/ Schedule(a)
    \/ \E a \in Agents, i \in Incidents : BackoffEnds(a, i)
    \/ \E x \in Agents \cup {All} : AskedSweeps(x)
    \/ \E result \in Answers3 : AttemptAnswers(result)
    \/ TimerSweeps \/ NextDue \/ NextOfPage \/ ReadCandidates \/ Survey
    \/ CandidatesFail \/ RecoveryRestarts

RecoverySpec == RecoveryInit /\ [][RecoveryNext]_recoveryVars

\* Calls answer or time out, back-offs end, and the 5 second timer is not met by
\* a sweep every time: two schedules are at least 100 ms apart.  No request has
\* to be made.
RecoveryFairness ==
    /\ SF_recoveryVars(TimerSweeps) /\ WF_recoveryVars(NextDue) /\ WF_recoveryVars(NextOfPage)
    /\ WF_recoveryVars(ReadCandidates) /\ WF_recoveryVars(Survey)
    /\ WF_recoveryVars(\E result \in Answers3 : AttemptAnswers(result))
    /\ \A a \in Agents, i \in Incidents : WF_recoveryVars(BackoffEnds(a, i))
RecoveryFair == RecoverySpec /\ RecoveryFairness

--------------------------------------------------------------------------
(* Properties. *)

\* No incident is tried more often than its budget, over any number of ends of
\* the bridge, late answers and inspections in between.
BudgetIsKept == \A a \in Agents, i \in Incidents : calls[a][i] <= Attempts

\* A problem with a connection is fixed, goes away, becomes another one, or is
\* reported as blocked: no agent is passed over for ever, whatever requests are
\* dropped, which others use up the sweeps, and where the bridge ends.
ProblemIsHandled ==
    \A a \in Agents \ Rechecks, i \in Incidents :
        (problem[a] /\ incident[a] = i) ~> (~problem[a] \/ incident[a] # i \/ IsIn(entry[a][i], "blocked"))
=============================================================================
