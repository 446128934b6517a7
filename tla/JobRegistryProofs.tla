------------------------- MODULE JobRegistryProofs -------------------------
(* The theorems of JobRegistry: what the row of a Job says of its stop, of    *)
(* its turn and of the outcome its bridge was told of.  The memory of the     *)
(* bridge may fall behind the row (two stops of one worker) and be ahead of   *)
(* it (a stop whose transaction was rolled back), so the invariant says in    *)
(* which cases the two may differ, and that the intents which the stops under *)
(* way have named are still open, each named by one of them.                  *)
(* A second invariant, over the first, says what the end on record, the turn  *)
(* and the outcome that is being committed have to do with each other.        *)
EXTENDS JobRegistry, SequenceTheorems, TLAPS

--------------------------------------------------------------------------
(* The inductive invariant *)

IntentStatus == {"recorded", "dispatched", "no-op", "failed", "succeeded"}
IntentRows == [status : IntentStatus, fresh : BOOLEAN]
Turns == Outcomes \cup {"none", "running", "refused", "released", "gone"}

RegistryTypeOK ==
    /\ mem \in [Jobs -> JobRows \cup {None}]
    /\ row \in [Jobs -> JobRows \cup {None}]
    /\ intents \in [Jobs -> Seq(IntentRows)]
    /\ stop \in [Jobs -> StopRows \cup {None}]
    /\ end \in [Jobs -> Outcomes \cup {None}]
    /\ deferredSettlements \in [Jobs -> Outcomes \cup {None}]
    /\ turn \in [Jobs -> Turns]
    /\ told \in [Jobs -> BOOLEAN]
    /\ up \in BOOLEAN

\* A Job in memory has a row, and nothing is in memory while the bridge is down.
InMemory(j) ==
    /\ mem[j] # None => row[j] # None
    /\ ~up => mem[j] = None /\ stop[j] = None /\ ~told[j]

\* The row is behind the memory only of a stop: whatever else has ended there
\* has ended on record.
EndedOnRecord(j) == Is(mem, j, TerminalStatus) => Is(row, j, TerminalStatus) \/ StopEnded(mem, j)

\* An active row has no origin of its end yet, and no Job has one in memory that
\* can still begin.
ActiveIsOpen(j) ==
    /\ Is(row, j, ActiveStatus) => row[j].origin = None
    /\ turn[j] = "none" /\ Is(mem, j, ActiveStatus) => mem[j].origin = None

\* A turn that runs was on record as dispatched before it began.
RunningIsDispatched(j) == turn[j] = "running" =>
    /\ row[j] # None
    /\ Is(row, j, ActiveStatus) => row[j].dispatched
    /\ Is(mem, j, ActiveStatus) \/ (mem[j] # None /\ stop[j] # None) => mem[j].dispatched

\* An outcome that the bridge was told of is the outcome of a turn that is over,
\* and it commits and defers no other.
ToldIsOver(j) ==
    /\ told[j] => turn[j] \notin {"none", "running"}
    /\ end[j] # None \/ deferredSettlements[j] # None => told[j]

\* OutcomeIsKept, of one Job.
Kept(j) ==
    up /\ j \in Receipted /\ told[j] =>
        \/ Is(row, j, TerminalStatus)
        \/ StopEnded(mem, j)
        \/ (end[j] # None \/ deferredSettlements[j] # None) /\ turn[j] # "released"

JobInv(j) ==
    /\ InMemory(j) /\ EndedOnRecord(j) /\ ActiveIsOpen(j)
    /\ RunningIsDispatched(j) /\ ToldIsOver(j) /\ Kept(j)

NamedAreOpen == \A j \in Jobs : stop[j] # None =>
    /\ DOMAIN stop[j].peers \subseteq Jobs \ {j}
    /\ \A p \in DOMAIN Names(stop[j], j) :
          /\ mem[p] # None /\ turn[p] # "none"
          /\ Names(stop[j], j)[p] \in DOMAIN intents[p]
          /\ intents[p][Names(stop[j], j)[p]].status = "dispatched"

NamedOnce == \A j, k \in Jobs : stop[j] # None /\ stop[k] # None /\ j # k =>
    \A p \in DOMAIN Names(stop[j], j) \cap DOMAIN Names(stop[k], k) :
        Names(stop[j], j)[p] # Names(stop[k], k)[p]

\* A turn that does not run, and cannot begin any more.
Over(j) ==
    /\ turn[j] # "running"
    /\ turn[j] = "none" => Is(row, j, TerminalStatus) /\ ~Is(mem, j, ActiveStatus)

\* StopIsProven, of turns that cannot begin either.
Proven == \A j \in Jobs :
    /\ \A n \in DOMAIN intents[j] : intents[j][n].status = "succeeded" => Over(j)
    /\ StopEnded(row, j) => /\ row[j].intent \in DOMAIN intents[j]
                            /\ intents[j][row[j].intent].status = "succeeded"

RegistryInv ==
    /\ RegistryTypeOK /\ \A j \in Jobs : JobInv(j)
    /\ NamedAreOpen /\ NamedOnce /\ Proven

--------------------------------------------------------------------------
(* None, rows and what upsertJob makes of them *)

LEMMA NoneIsNothing ==
    /\ None \notin Nat /\ None \notin Outcomes /\ None \notin Origins
    /\ None \notin JobRows /\ None \notin StopRows
    /\ None \notin StopOrigins
BY RegistryAssumption DEF Origins, StopOrigins

LEMMA OriginsHaveEnds ==
    /\ \A o \in Origins : StatusOfOrigin[o] \in TerminalStatus
    /\ \A o \in Origins : StatusOfOrigin[o] = "cancelled" <=> o = "explicit-cancellation"
    /\ StatusOfOrigin["assignment-containment"] = "interrupted"
    /\ StatusOfOrigin["bridge-restart"] = "interrupted"
    /\ \A o \in Outcomes : OriginOf[o] \in Origins \ {"explicit-cancellation"}
BY DEF StatusOfOrigin, OriginOf, Origins, Outcomes, TerminalStatus

\* What a row becomes: it stays, or it takes the status of the candidate.
LEMMA UpsertedRow ==
    ASSUME NEW old \in JobRows \cup {None}, NEW c \in JobRows
    PROVE  /\ Upserted(old, c) \in JobRows \cup {None}
           /\ old # None => Upserted(old, c) # None
           /\ \/ Upserted(old, c) = old
              \/ /\ Upserted(old, c) \in JobRows
                 /\ Upserted(old, c).status = c.status
                 /\ Upserted(old, c).dispatched = c.dispatched
                 /\ Upserted(old, c).origin = IF c.origin # None \/ old = None THEN c.origin ELSE old.origin
                 /\ Upserted(old, c).intent = IF c.intent # None \/ old = None THEN c.intent ELSE old.intent
                 /\ ~Ends(old, c) /\ Accepts(old, c)
<1> USE NoneIsNothing
<1>1. CASE Ends(old, c) \/ ~Accepts(old, c) BY <1>1 DEF Upserted
<1>2. CASE ~(Ends(old, c) \/ ~Accepts(old, c))
  <2>1. Upserted(old, c) = Merged(old, c) BY <1>2 DEF Upserted
  <2>2. CASE old = None BY <1>2, <2>1, <2>2 DEF Merged
  <2>3. CASE old # None
    <3>1. old \in JobRows BY <2>3
    <3>2. Merged(old, c) = [c EXCEPT !.origin = Coalesce(c.origin, old.origin), !.intent = Coalesce(c.intent, old.intent)]
          BY <2>3 DEF Merged
    <3>3. /\ Coalesce(c.origin, old.origin) \in Origins \cup {None}
          /\ Coalesce(c.intent, old.intent) \in Nat \cup {None}
          BY <3>1 DEF Coalesce, JobRows
    <3>4. /\ Merged(old, c) \in JobRows
          /\ Merged(old, c).status = c.status /\ Merged(old, c).dispatched = c.dispatched
          /\ Merged(old, c).origin = Coalesce(c.origin, old.origin)
          /\ Merged(old, c).intent = Coalesce(c.intent, old.intent)
          BY <3>2, <3>3 DEF JobRows
    <3> QED BY <1>2, <2>1, <2>3, <3>4 DEF Coalesce
  <2> QED BY <2>2, <2>3
<1> QED BY <1>1, <1>2

\* What has ended on record never becomes active again.
LEMMA EndedStays ==
    ASSUME NEW old \in JobRows, NEW c \in JobRows, old.status \in TerminalStatus
    PROVE  Upserted(old, c) \in JobRows /\ Upserted(old, c).status \in TerminalStatus
BY NoneIsNothing, UpsertedRow DEF Ends, JobRows

\* A change of a Job that is active on record is taken.
LEMMA ActiveIsTaken ==
    ASSUME NEW old \in JobRows \cup {None}, NEW c \in JobRows,
           c.status \in ActiveStatus, c.origin = None,
           old # None => old.status \in ActiveStatus /\ old.origin = None
    PROVE  /\ Upserted(old, c) \in JobRows
           /\ Upserted(old, c).status = c.status /\ Upserted(old, c).origin = None
           /\ Upserted(old, c).dispatched = c.dispatched
<1> USE NoneIsNothing
<1>1. ~Ends(old, c) BY DEF Ends, ActiveStatus, Live, TerminalStatus
<1>2. Accepts(old, c)
  <2>1. CASE old = None BY <2>1 DEF Origins, Accepts, Merged, ActiveStatus, Live
  <2>2. CASE old # None
    <3>1. old \in JobRows BY <2>2
    <3>2. Coalesce(c.origin, old.origin) = None BY <2>2 DEF Coalesce
    <3>3. Merged(old, c).origin = None /\ Merged(old, c).status = c.status
          BY <2>2, <3>2 DEF Merged, JobRows
    <3> QED BY <3>3 DEF Origins, Accepts, ActiveStatus, Live
  <2> QED BY <2>1, <2>2
<1>3. CASE old = None BY <1>1, <1>2, <1>3 DEF Upserted, Merged
<1>4. CASE old # None
  <2>1. Upserted(old, c) = [c EXCEPT !.origin = Coalesce(c.origin, old.origin), !.intent = Coalesce(c.intent, old.intent)]
        BY <1>1, <1>2, <1>4 DEF Upserted, Merged
  <2>2. Coalesce(c.intent, old.intent) \in Nat \cup {None} BY <1>4 DEF Coalesce, JobRows
  <2> QED BY <1>4, <2>1, <2>2 DEF Coalesce, JobRows
<1> QED BY <1>3, <1>4

\* An end that names its own origin, and is not the turn's own interruption, is taken.
LEMMA EndIsTaken ==
    ASSUME NEW old \in JobRows \cup {None}, NEW c \in JobRows,
           c.origin \in Origins \ {"app-server-interrupted"}, c.status = StatusOfOrigin[c.origin],
           c.status = "cancelled" => c.intent # None
    PROVE  /\ Upserted(old, c) \in JobRows /\ Upserted(old, c).status = c.status
           /\ Upserted(old, c).origin = c.origin
           /\ c.intent # None => Upserted(old, c).intent = c.intent
<1> USE NoneIsNothing
<1>1. c.status \in TerminalStatus /\ (c.status = "cancelled" => c.origin = "explicit-cancellation")
      BY OriginsHaveEnds
<1>2. ~Ends(old, c) BY <1>1 DEF Ends, ActiveStatus, Live, TerminalStatus
<1>3. CASE old = None BY <1>1, <1>2, <1>3 DEF Upserted, Merged, Accepts
<1>4. CASE old # None
  <2>1. Coalesce(c.origin, old.origin) = c.origin BY DEF Coalesce
  <2>2. Coalesce(c.intent, old.intent) \in Nat \cup {None}
        /\ (c.intent # None => Coalesce(c.intent, old.intent) = c.intent)
        BY <1>4 DEF Coalesce, JobRows
  <2>3. Merged(old, c) = [c EXCEPT !.origin = Coalesce(c.origin, old.origin), !.intent = Coalesce(c.intent, old.intent)]
        BY <1>4 DEF Merged
  <2>4. /\ Merged(old, c) \in JobRows /\ Merged(old, c).status = c.status /\ Merged(old, c).origin = c.origin
        /\ Merged(old, c).intent = Coalesce(c.intent, old.intent)
        BY <2>1, <2>2, <2>3 DEF JobRows
  <2>5. Accepts(old, c) BY <1>1, <2>2, <2>4 DEF Accepts
  <2> QED BY <1>2, <2>2, <2>4, <2>5 DEF Upserted
<1> QED BY <1>3, <1>4

LEMMA ProgressedRow ==
    ASSUME NEW old \in JobRows \cup {None}
    PROVE  /\ Progressed(old) \in JobRows \cup {None} /\ (old # None => Progressed(old) # None)
           /\ old # None =>
                /\ Progressed(old).origin = old.origin /\ Progressed(old).intent = old.intent
                /\ Progressed(old).dispatched = old.dispatched
                /\ Progressed(old).status = old.status
                     \/ {Progressed(old).status, old.status} \subseteq ActiveStatus
BY NoneIsNothing DEF Progressed, JobRows, ActiveStatus, Live

--------------------------------------------------------------------------
(* Lists of intents *)

LEMMA AgedList ==
    ASSUME NEW list \in Seq(IntentRows)
    PROVE  /\ Aged(list) \in Seq(IntentRows) /\ DOMAIN Aged(list) = DOMAIN list
           /\ \A n \in DOMAIN list : Aged(list)[n].status = list[n].status
<1>1. \A n \in DOMAIN list : list[n] \in IntentRows OBVIOUS
<1>2. \A n \in DOMAIN list : [list[n] EXCEPT !.fresh = FALSE] \in IntentRows
                             /\ [list[n] EXCEPT !.fresh = FALSE].status = list[n].status
      BY <1>1 DEF IntentRows
<1>3. DOMAIN list = 1 .. Len(list) /\ Len(list) \in Nat OBVIOUS
<1>4. Aged(list) \in [1 .. Len(list) -> IntentRows] BY <1>2, <1>3 DEF Aged
<1> QED BY <1>2, <1>3, <1>4, SeqDef DEF Aged

LEMMA MarkedList ==
    ASSUME NEW list \in Seq(IntentRows), NEW n \in DOMAIN list,
           NEW status \in IntentStatus
    PROVE  /\ Marked(list, n, status) \in Seq(IntentRows) /\ DOMAIN Marked(list, n, status) = DOMAIN list
           /\ \A i \in DOMAIN list : Marked(list, n, status)[i].status = IF i = n THEN status ELSE list[i].status
<1>1. \A i \in DOMAIN list : list[i] \in IntentRows OBVIOUS
<1>2. [list[n] EXCEPT !.status = status] \in IntentRows /\ [list[n] EXCEPT !.status = status].status = status
      BY <1>1 DEF IntentRows
<1>3. Marked(list, n, status) = [list EXCEPT ![n] = [list[n] EXCEPT !.status = status]] BY DEF Marked
<1> QED BY <1>1, <1>2, <1>3

LEMMA AppendedList ==
    ASSUME NEW list \in Seq(IntentRows)
    PROVE  /\ Append(list, NewIntent) \in Seq(IntentRows) /\ Len(Append(list, NewIntent)) = Len(list) + 1
           /\ DOMAIN Append(list, NewIntent) = DOMAIN list \cup {Len(list) + 1}
           /\ Len(list) + 1 \notin DOMAIN list
           /\ \A i \in DOMAIN list : Append(list, NewIntent)[i] = list[i]
           /\ Append(list, NewIntent)[Len(list) + 1].status = "recorded"
<1>1. NewIntent \in IntentRows /\ NewIntent.status = "recorded" BY DEF NewIntent, IntentRows, IntentStatus
<1> QED BY <1>1

--------------------------------------------------------------------------
(* Steps that leave the stops under way alone *)

JobState(j) == <<mem[j], row[j], stop[j], end[j], deferredSettlements[j], turn[j], told[j], up>>

JobRest(j) == <<mem[j], row[j], end[j], deferredSettlements[j], told[j], up>>

\* A turn begins only where a step begins it, and an outcome is released only
\* where a step acknowledges it.
TurnGoesOn(j) ==
    /\ turn'[j] = "running" => turn[j] = "running"
    /\ turn'[j] = "none" => turn[j] = "none"
    /\ turn'[j] = "released" => turn[j] = "released"

LEMMA JobRests ==
    ASSUME NEW j \in Jobs, JobInv(j), JobRest(j)' = JobRest(j), stop'[j] \in {stop[j], None}, TurnGoesOn(j)
    PROVE  JobInv(j)'
<1>1. /\ mem'[j] = mem[j] /\ row'[j] = row[j] /\ end'[j] = end[j]
      /\ deferredSettlements'[j] = deferredSettlements[j] /\ told'[j] = told[j] /\ up' = up
      BY DEF JobRest
<1>2. InMemory(j)' /\ EndedOnRecord(j)' /\ ActiveIsOpen(j)' /\ RunningIsDispatched(j)'
      BY <1>1 DEF JobInv, InMemory, EndedOnRecord, ActiveIsOpen, RunningIsDispatched, StopEnded, TurnGoesOn, Is
<1>3. ToldIsOver(j)' BY <1>1 DEF JobInv, ToldIsOver, TurnGoesOn
<1>4. Kept(j)' BY <1>1 DEF JobInv, Kept, StopEnded, TurnGoesOn, Is
<1> QED BY <1>2, <1>3, <1>4 DEF JobInv

LEMMA JobFrame == ASSUME NEW j \in Jobs, JobInv(j), JobState(j)' = JobState(j) PROVE JobInv(j)'
BY JobRests DEF JobState, JobRest, TurnGoesOn

\* No intent succeeds, and none that was dispatched is touched.
QuietIntents == \A j \in Jobs :
    /\ DOMAIN intents[j] \subseteq DOMAIN intents'[j]
    /\ \A n \in DOMAIN intents[j] :
          intents[j][n].status \in {"dispatched", "succeeded"} => intents'[j][n].status = intents[j][n].status
    /\ \A n \in DOMAIN intents'[j] :
          intents'[j][n].status = "succeeded" => n \in DOMAIN intents[j] /\ intents[j][n].status = "succeeded"

\* What has ended on record stays so, no stop ends a row, and what is over stays so.
RowGoesOn(j) ==
    /\ Is(row, j, TerminalStatus) => Is(row', j, TerminalStatus)
    /\ StopEnded(row', j) => StopEnded(row, j) /\ row'[j].intent = row[j].intent
    /\ Over(j) => Over(j)'

LEMMA RowFrame == ASSUME NEW j \in Jobs, JobState(j)' = JobState(j) PROVE RowGoesOn(j)
<1>1. mem'[j] = mem[j] /\ row'[j] = row[j] /\ turn'[j] = turn[j] BY DEF JobState
<1> QED BY <1>1 DEF RowGoesOn, StopEnded, Over, Is

SucceededStay == \A j \in Jobs :
    /\ DOMAIN intents[j] \subseteq DOMAIN intents'[j]
    /\ \A n \in DOMAIN intents[j] : intents[j][n].status = "succeeded" => intents'[j][n].status = "succeeded"
    /\ \A n \in DOMAIN intents'[j] :
          intents'[j][n].status = "succeeded" => n \in DOMAIN intents[j] /\ intents[j][n].status = "succeeded"

LEMMA QuietProven ==
    ASSUME RegistryInv, SucceededStay, \A j \in Jobs : RowGoesOn(j)
    PROVE  Proven'
<1> SUFFICES ASSUME NEW j \in Jobs
             PROVE  /\ \A n \in DOMAIN intents'[j] : intents'[j][n].status = "succeeded" => Over(j)'
                    /\ StopEnded(row', j) => /\ row'[j].intent \in DOMAIN intents'[j]
                                             /\ intents'[j][row'[j].intent].status = "succeeded"
    BY DEF Proven
<1>1. \A n \in DOMAIN intents'[j] : intents'[j][n].status = "succeeded" => Over(j)'
      BY DEF RegistryInv, SucceededStay, RowGoesOn, Proven
<1>2. StopEnded(row', j) => /\ row'[j].intent \in DOMAIN intents'[j]
                           /\ intents'[j][row'[j].intent].status = "succeeded"
      BY DEF RegistryInv, SucceededStay, RowGoesOn, Proven
<1> QED BY <1>1, <1>2

DispatchedStay == \A j \in Jobs :
    /\ DOMAIN intents[j] \subseteq DOMAIN intents'[j]
    /\ \A n \in DOMAIN intents[j] : intents[j][n].status = "dispatched" => intents'[j][n].status = "dispatched"

LEMMA QuietNames ==
    ASSUME RegistryInv, DispatchedStay, stop' = stop, \A j \in Jobs : mem[j] # None => mem'[j] # None,
           \A j \in Jobs : turn'[j] = "none" => turn[j] = "none"
    PROVE  NamedAreOpen' /\ NamedOnce'
<1> USE DEF RegistryInv
<1>1. NamedAreOpen'
  <2> SUFFICES ASSUME NEW j \in Jobs, stop[j] # None
               PROVE  /\ DOMAIN stop[j].peers \subseteq Jobs \ {j}
                      /\ \A p \in DOMAIN Names(stop[j], j) :
                            /\ mem'[p] # None /\ turn'[p] # "none"
                            /\ Names(stop[j], j)[p] \in DOMAIN intents'[p]
                            /\ intents'[p][Names(stop[j], j)[p]].status = "dispatched"
      BY DEF NamedAreOpen
  <2>1. DOMAIN stop[j].peers \subseteq Jobs \ {j} BY DEF NamedAreOpen
  <2>2. DOMAIN Names(stop[j], j) \subseteq Jobs BY <2>1 DEF Names
  <2> QED BY <2>1, <2>2 DEF NamedAreOpen, DispatchedStay
<1>2. NamedOnce' BY DEF NamedOnce
<1> QED BY <1>1, <1>2

\* A step of one Job.
LEMMA OneJob ==
    ASSUME RegistryInv, RegistryTypeOK', NEW j \in Jobs, QuietIntents, stop' = stop,
           mem[j] # None => mem'[j] # None, turn'[j] = "none" => turn[j] = "none",
           RowGoesOn(j), JobInv(j)',
           \A k \in Jobs \ {j} : JobState(k)' = JobState(k)
    PROVE  RegistryInv'
<1> USE DEF RegistryInv
<1>1. \A k \in Jobs : JobInv(k)' BY JobFrame
<1>2. \A k \in Jobs : RowGoesOn(k) BY RowFrame
<1>3. \A k \in Jobs : (mem[k] # None => mem'[k] # None) /\ (turn'[k] = "none" => turn[k] = "none")
      BY DEF JobState
<1>4. DispatchedStay /\ SucceededStay BY DEF QuietIntents, DispatchedStay, SucceededStay
<1> QED BY <1>1, <1>2, <1>3, <1>4, QuietProven, QuietNames

LEMMA SameIntents == ASSUME UNCHANGED intents PROVE QuietIntents
BY DEF QuietIntents

LEMMA AgedIntents ==
    ASSUME RegistryTypeOK, NEW j \in Jobs, intents' = [intents EXCEPT ![j] = Aged(@)]
    PROVE  QuietIntents /\ intents' \in [Jobs -> Seq(IntentRows)]
<1>1. intents[j] \in Seq(IntentRows) BY DEF RegistryTypeOK
<1>2. \A k \in Jobs : intents'[k] = IF k = j THEN Aged(intents[j]) ELSE intents[k] BY DEF RegistryTypeOK
<1> QED BY <1>1, <1>2, AgedList DEF QuietIntents, RegistryTypeOK

--------------------------------------------------------------------------
(* Admission, dispatch and progress *)

\* The statuses of a row are active or terminal, never both.
LEMMA ActiveOrTerminal ==
    ASSUME NEW r \in JobRows
    PROVE  r.status \in ActiveStatus <=> r.status \notin TerminalStatus
BY DEF JobRows, ActiveStatus, Live, TerminalStatus

\* A candidate that is active but names the origin of an end is refused.
LEMMA OpenCandidate ==
    ASSUME NEW old \in JobRows \cup {None}, NEW c \in JobRows, c.status \in ActiveStatus,
           Accepts(old, c), ~Ends(old, c)
    PROVE  /\ c.origin = None
           /\ old # None => old.status \in ActiveStatus /\ old.origin = None
<1> USE NoneIsNothing
<1> DEFINE m == Merged(old, c)
<1>1. c.origin \in Origins \cup {None} BY DEF JobRows
<1>2. CASE old = None
  <2>1. m = c BY <1>2 DEF Merged
  <2>2. c.origin # None => c.status = StatusOfOrigin[c.origin] BY <2>1 DEF Accepts
  <2> QED BY <1>1, <1>2, <2>2, OriginsHaveEnds, ActiveOrTerminal
<1>3. CASE old # None
  <2>1. old \in JobRows BY <1>3
  <2>2. /\ Coalesce(c.origin, old.origin) \in Origins \cup {None}
        /\ Coalesce(c.intent, old.intent) \in Nat \cup {None}
        BY <2>1 DEF Coalesce, JobRows
  <2>3. m.status = c.status /\ m.origin = Coalesce(c.origin, old.origin) BY <1>3, <2>2 DEF Merged, JobRows
  <2>4. m.origin # None => c.status = StatusOfOrigin[m.origin] BY <2>3 DEF Accepts
  <2>5. m.origin = None BY <2>2, <2>3, <2>4, OriginsHaveEnds, ActiveOrTerminal
  <2>6. c.origin = None /\ old.origin = None BY <2>3, <2>5 DEF Coalesce
  <2>7. old.status \in ActiveStatus BY <1>3, <2>1, ActiveOrTerminal DEF Ends
  <2> QED BY <2>6, <2>7
<1> QED BY <1>2, <1>3

LEMMA StartStep == ASSUME RegistryInv, NEW j \in Jobs, StartJob(j) PROVE RegistryInv'
<1> USE NoneIsNothing DEF RegistryInv
<1>1. /\ up /\ row[j] = None
      /\ mem' = [mem EXCEPT ![j] = NewJob] /\ row' = [row EXCEPT ![j] = NewJob]
      /\ UNCHANGED <<intents, stop, end, deferredSettlements, turn, told, up>>
      BY DEF StartJob
<1>2. NewJob \in JobRows /\ NewJob.status = "running" /\ NewJob.origin = None
      BY DEF NewJob, JobRows, ActiveStatus, Live
<1>3. RegistryTypeOK' BY <1>1, <1>2 DEF RegistryTypeOK
<1>4. mem[j] = None /\ turn[j] # "running" BY <1>1 DEF JobInv, InMemory, RunningIsDispatched
<1>5. mem'[j] = NewJob /\ row'[j] = NewJob BY <1>1 DEF RegistryTypeOK
<1>6. RowGoesOn(j) BY <1>1, <1>2, <1>5 DEF RowGoesOn, Over, StopEnded, Is
<1>7. JobInv(j)'
  <2>1. InMemory(j)' /\ EndedOnRecord(j)' /\ ActiveIsOpen(j)' /\ RunningIsDispatched(j)' /\ ToldIsOver(j)'
        BY <1>1, <1>2, <1>4, <1>5
        DEF JobInv, InMemory, EndedOnRecord, ActiveIsOpen, RunningIsDispatched, ToldIsOver, Is, TerminalStatus
  <2>2. Kept(j)' BY <1>1, <1>4, <1>5 DEF JobInv, Kept, StopEnded, Is
  <2> QED BY <2>1, <2>2 DEF JobInv
<1>8. \A k \in Jobs \ {j} : JobState(k)' = JobState(k) BY <1>1 DEF JobState, RegistryTypeOK
<1> QED BY <1>1, <1>3, <1>4, <1>6, <1>7, <1>8, OneJob, SameIntents

\* A Job that is active, or whose stop is under way, is or stays active in memory;
\* the change is written, or refused.
LEMMA ActiveChanges ==
    ASSUME RegistryInv, NEW j \in Jobs, up, mem[j] # None,
           mem[j].status \in ActiveStatus \/ stop[j] # None,
           NEW c \in JobRows, c.status \in ActiveStatus, c.origin \in {mem[j].origin, None},
           c.origin = mem[j].origin \/ turn[j] = "running",
           mem[j].dispatched => c.dispatched,
           mem'[j] = c,
           row'[j] \in {row[j], Upserted(row[j], c), Progressed(row[j])},
           turn'[j] = "running" => \/ turn[j] = "running"
                                   \/ /\ turn[j] = "none" /\ mem[j].status \in ActiveStatus
                                      /\ c.dispatched /\ c.origin = None /\ row'[j] = Upserted(row[j], c),
           turn'[j] = "none" => turn[j] = "none",
           turn'[j] = "released" => turn[j] = "released",
           told'[j] => told[j] \/ (end'[j] # None /\ turn'[j] \notin {"none", "running", "released"}),
           end[j] # None => end'[j] # None,
           deferredSettlements[j] # None => end'[j] # None \/ deferredSettlements'[j] # None,
           end'[j] # None \/ deferredSettlements'[j] # None => told'[j],
           up' = up
    PROVE  /\ row'[j] \in JobRows /\ RowGoesOn(j) /\ JobInv(j)'
<1> USE NoneIsNothing DEF RegistryInv
<1>1. row[j] \in JobRows /\ mem[j] \in JobRows BY DEF JobInv, InMemory, RegistryTypeOK
<1>2. row[j].status \in ActiveStatus => row[j].origin = None BY <1>1 DEF JobInv, ActiveIsOpen, Is
<1>3. turn[j] = "none" => mem[j].status \in ActiveStatus /\ mem[j].origin = None
  <2>1. turn[j] = "none" => stop[j] = None
    <3>1. j \in DOMAIN Names(stop[j], j) BY DEF Names
    <3> QED BY <3>1 DEF NamedAreOpen
  <2> QED BY <1>1, <2>1 DEF JobInv, ActiveIsOpen, Is
\* What the row becomes: it stays, it progresses, or it takes an open candidate.
<1>4. /\ row'[j] \in JobRows
      /\ \/ row'[j] = row[j]
         \/ /\ row[j].status \in ActiveStatus /\ row'[j].status \in ActiveStatus /\ row'[j].origin = None
            /\ row'[j].dispatched = row[j].dispatched \/ row'[j].dispatched = c.dispatched
  <2>1. CASE row'[j] = row[j] BY <1>1, <2>1
  <2>2. CASE row'[j] = Progressed(row[j]) /\ row'[j] # row[j]
    <3>1. row[j].status \in ActiveStatus BY <2>2 DEF Progressed, ActiveStatus, Live
    <3> QED BY <1>1, <1>2, <2>2, <3>1, ProgressedRow, ActiveOrTerminal
  <2>3. CASE row'[j] = Upserted(row[j], c) /\ row'[j] # row[j]
    <3>1. /\ Upserted(row[j], c) \in JobRows /\ Upserted(row[j], c).status = c.status
          /\ Upserted(row[j], c).dispatched = c.dispatched
          /\ Upserted(row[j], c).origin = IF c.origin # None THEN c.origin ELSE row[j].origin
          /\ ~Ends(row[j], c) /\ Accepts(row[j], c)
          BY <1>1, <2>3, UpsertedRow
    <3>2. c.origin = None /\ row[j].status \in ActiveStatus /\ row[j].origin = None
          BY <1>1, <3>1, OpenCandidate
    <3> QED BY <2>3, <3>1, <3>2
  <2> QED BY <2>1, <2>2, <2>3
<1>5. ASSUME turn[j] = "none", c.dispatched, c.origin = None, row'[j] = Upserted(row[j], c)
      PROVE  row'[j].status \in ActiveStatus => row'[j].dispatched
  <2>1. CASE row[j].status \in ActiveStatus
    <3>1. Upserted(row[j], c).dispatched = c.dispatched BY <1>1, <1>2, <1>5, <2>1, ActiveIsTaken
    <3> QED BY <1>5, <3>1
  <2>2. CASE row[j].status \in TerminalStatus
    <3>1. row'[j].status \in TerminalStatus BY <1>1, <1>5, <2>2, EndedStays
    <3> QED BY <1>4, <3>1, ActiveOrTerminal
  <2> QED BY <1>1, <2>1, <2>2, ActiveOrTerminal
<1>6. /\ row[j].status \in ActiveStatus <=> row[j].status \notin TerminalStatus
      /\ row'[j].status \in ActiveStatus <=> row'[j].status \notin TerminalStatus
      /\ c.status \notin TerminalStatus
      BY <1>1, <1>4, ActiveOrTerminal
<1>7. RowGoesOn(j)
  <2>1. Is(row, j, TerminalStatus) => Is(row', j, TerminalStatus) BY <1>1, <1>4, <1>6 DEF Is
  <2>2. StopEnded(row', j) => StopEnded(row, j) /\ row'[j].intent = row[j].intent
        BY <1>4 DEF StopEnded
  <2>3. Over(j) => Over(j)' BY <1>1, <1>3, <2>1 DEF Over, Is
  <2> QED BY <2>1, <2>2, <2>3 DEF RowGoesOn
<1>8. InMemory(j)' /\ EndedOnRecord(j)' BY <1>4, <1>6 DEF InMemory, EndedOnRecord, Is
<1>9. ActiveIsOpen(j)'
  <2>1. row'[j].status \in ActiveStatus => row'[j].origin = None BY <1>2, <1>4
  <2>2. turn'[j] = "none" => c.origin = None BY <1>3
  <2> QED BY <2>1, <2>2 DEF ActiveIsOpen, Is
<1>10. RunningIsDispatched(j)'
  <2> SUFFICES ASSUME turn'[j] = "running"
               PROVE  (row'[j].status \in ActiveStatus => row'[j].dispatched) /\ c.dispatched
      BY <1>4 DEF RunningIsDispatched, Is
  <2>1. CASE turn[j] = "running"
    <3>1. mem[j].dispatched /\ (row[j].status \in ActiveStatus => row[j].dispatched)
          BY <2>1, <1>1 DEF JobInv, RunningIsDispatched, Is
    <3> QED BY <3>1, <1>4
  <2>2. CASE turn[j] = "none" /\ c.dispatched /\ c.origin = None /\ row'[j] = Upserted(row[j], c)
        BY <2>2, <1>5
  <2> QED BY <2>1, <2>2
<1>11. told[j] => turn[j] \notin {"none", "running"}
       BY DEF JobInv, ToldIsOver
<1>12. ToldIsOver(j)' BY <1>11 DEF ToldIsOver
<1>13. Kept(j)'
  <2> SUFFICES ASSUME j \in Receipted, told[j], turn[j] \notin {"none", "running"}
               PROVE  \/ Is(row', j, TerminalStatus) \/ StopEnded(mem', j)
                      \/ (end'[j] # None \/ deferredSettlements'[j] # None) /\ turn'[j] # "released"
      BY <1>11 DEF Kept
  <2>1. \/ Is(row, j, TerminalStatus) \/ StopEnded(mem, j)
        \/ (end[j] # None \/ deferredSettlements[j] # None) /\ turn[j] # "released"
        BY DEF JobInv, Kept
  <2>2. StopEnded(mem, j) => StopEnded(mem', j) BY DEF StopEnded
  <2> QED BY <1>7, <2>1, <2>2 DEF RowGoesOn
<1> QED BY <1>4, <1>7, <1>8, <1>9, <1>10, <1>12, <1>13 DEF JobInv
LEMMA AssertStep == ASSUME RegistryInv, NEW j \in Jobs, NEW ok \in BOOLEAN, AssertJobMayExecute(j, ok) PROVE RegistryInv'
<1> USE NoneIsNothing DEF RegistryInv
<1> DEFINE c == [mem[j] EXCEPT !.dispatched = TRUE]
<1>1. /\ up /\ mem[j] # None /\ mem[j].status = "running" /\ end[j] = None /\ turn[j] = "none"
      /\ UNCHANGED <<intents, stop, deferredSettlements, up>>
      BY DEF AssertJobMayExecute, Is
<1>2. mem[j] \in JobRows /\ row[j] \in JobRows /\ row[j] # None
      BY <1>1 DEF JobInv, InMemory, RegistryTypeOK
<1>3. CASE ok /\ project = "active"
  <2>1. /\ mem' = [mem EXCEPT ![j] = c] /\ row' = [row EXCEPT ![j] = Upserted(@, mem'[j])]
        /\ turn' = [turn EXCEPT ![j] = "running"] /\ UNCHANGED <<end, told>>
        BY <1>3 DEF AssertJobMayExecute
  <2>2. c \in JobRows /\ c.status = mem[j].status /\ c.origin = mem[j].origin /\ c.dispatched
        BY <1>2 DEF JobRows
  <2> HIDE DEF c
  <2>3. mem'[j] = c /\ row'[j] = Upserted(row[j], c) /\ turn'[j] = "running" BY <2>1 DEF RegistryTypeOK
  <2>a. mem[j].origin = None BY <1>1 DEF JobInv, ActiveIsOpen, Is, ActiveStatus, Live
  <2>4. row'[j] \in JobRows /\ RowGoesOn(j) /\ JobInv(j)'
        BY <1>1, <2>1, <2>2, <2>3, <2>a, ActiveChanges DEF JobInv, ToldIsOver, Is, ActiveStatus, Live
  <2>5. row' = [row EXCEPT ![j] = row'[j]] BY <2>1, <2>3
  <2>6. RegistryTypeOK' BY <1>1, <2>1, <2>2, <2>4, <2>5 DEF RegistryTypeOK, Turns
  <2>7. \A k \in Jobs \ {j} : JobState(k)' = JobState(k) BY <1>1, <2>1 DEF JobState, RegistryTypeOK
  <2> QED BY <1>1, <2>2, <2>3, <2>4, <2>6, <2>7, OneJob, SameIntents
<1>4. CASE ~(ok /\ project = "active")
  <2>1. /\ turn' = [turn EXCEPT ![j] = "refused"] /\ end' = [end EXCEPT ![j] = "failed"]
        /\ told' = [told EXCEPT ![j] = TRUE] /\ UNCHANGED <<mem, row>>
        BY <1>4 DEF AssertJobMayExecute
  <2>2. turn'[j] = "refused" /\ end'[j] = "failed" /\ "failed" \in Outcomes /\ told'[j]
        BY <2>1 DEF RegistryTypeOK, Outcomes
  <2>3. row'[j] \in JobRows /\ RowGoesOn(j) /\ JobInv(j)'
        BY <1>1, <1>2, <2>1, <2>2, ActiveChanges DEF JobInv, ToldIsOver, Is, ActiveStatus, Live
  <2>4. RegistryTypeOK' BY <1>1, <2>1, <2>2 DEF RegistryTypeOK, Turns
  <2>5. \A k \in Jobs \ {j} : JobState(k)' = JobState(k) BY <1>1, <2>1 DEF JobState, RegistryTypeOK
  <2> QED BY <1>1, <2>1, <2>3, <2>4, <2>5, OneJob, SameIntents
<1> QED BY <1>3, <1>4

LEMMA AssignmentStep ==
    ASSUME RegistryInv, NEW j \in Jobs, NEW ok \in BOOLEAN, RecordWorkerAssignment(j, ok) PROVE RegistryInv'
<1> USE NoneIsNothing DEF RegistryInv
<1> DEFINE c == [mem[j] EXCEPT !.assigned = TRUE, !.connected = TRUE]
<1>1. /\ up /\ mem[j] # None /\ mem[j].status \in Live
      /\ mem' = [mem EXCEPT ![j] = c] /\ row' = [row EXCEPT ![j] = IF ok THEN Upserted(@, mem'[j]) ELSE @]
      /\ intents' = [intents EXCEPT ![j] = Aged(@)]
      /\ UNCHANGED <<stop, end, deferredSettlements, turn, told, up>>
      BY DEF RecordWorkerAssignment, Is
<1>2. mem[j] \in JobRows BY <1>1 DEF RegistryTypeOK
<1>3. c \in JobRows /\ c.status = mem[j].status /\ c.origin = mem[j].origin /\ c.dispatched = mem[j].dispatched
      BY <1>2 DEF JobRows
<1> HIDE DEF c
<1>4. mem'[j] = c /\ row'[j] \in {row[j], Upserted(row[j], c)} BY <1>1 DEF RegistryTypeOK
<1>5. row'[j] \in JobRows /\ RowGoesOn(j) /\ JobInv(j)'
      BY <1>1, <1>2, <1>3, <1>4, ActiveChanges DEF JobInv, ToldIsOver, ActiveStatus, Live
<1>6. row' = [row EXCEPT ![j] = row'[j]] BY <1>1 DEF RegistryTypeOK
<1>7. QuietIntents /\ intents' \in [Jobs -> Seq(IntentRows)] BY <1>1, AgedIntents
<1>8. RegistryTypeOK' BY <1>1, <1>3, <1>5, <1>6, <1>7 DEF RegistryTypeOK
<1>9. \A k \in Jobs \ {j} : JobState(k)' = JobState(k) BY <1>1 DEF JobState, RegistryTypeOK
<1> QED BY <1>1, <1>3, <1>4, <1>5, <1>7, <1>8, <1>9, OneJob

LEMMA ProgressStep ==
    ASSUME RegistryInv, NEW j \in Jobs, NEW later \in BOOLEAN, NEW ok \in BOOLEAN, RecordProgress(j, later, ok)
    PROVE  RegistryInv'
<1> USE NoneIsNothing DEF RegistryInv
<1> DEFINE c == [mem[j] EXCEPT !.status = "running"]
<1>1. /\ up /\ mem[j] # None /\ mem[j].status \in Live
      /\ mem' = [mem EXCEPT ![j] = c] /\ row' = [row EXCEPT ![j] = IF ok /\ ~later THEN Progressed(@) ELSE @]
      /\ intents' = [intents EXCEPT ![j] = Aged(@)]
      /\ UNCHANGED <<stop, end, deferredSettlements, turn, told, up>>
      BY DEF RecordProgress, Is
<1>2. mem[j] \in JobRows BY <1>1 DEF RegistryTypeOK
<1>3. c \in JobRows /\ c.status = "running" /\ c.origin = mem[j].origin /\ c.dispatched = mem[j].dispatched
      BY <1>2 DEF JobRows, ActiveStatus, Live
<1> HIDE DEF c
<1>4. mem'[j] = c /\ row'[j] \in {row[j], Progressed(row[j])} BY <1>1 DEF RegistryTypeOK
<1>5. row'[j] \in JobRows /\ RowGoesOn(j) /\ JobInv(j)'
      BY <1>1, <1>2, <1>3, <1>4, ActiveChanges DEF JobInv, ToldIsOver, ActiveStatus, Live
<1>6. row' = [row EXCEPT ![j] = row'[j]] BY <1>1 DEF RegistryTypeOK
<1>7. QuietIntents /\ intents' \in [Jobs -> Seq(IntentRows)] BY <1>1, AgedIntents
<1>8. RegistryTypeOK' BY <1>1, <1>3, <1>5, <1>6, <1>7 DEF RegistryTypeOK
<1>9. \A k \in Jobs \ {j} : JobState(k)' = JobState(k) BY <1>1 DEF JobState, RegistryTypeOK
<1> QED BY <1>1, <1>3, <1>4, <1>5, <1>7, <1>8, <1>9, OneJob

LEMMA DeferredProgressStep ==
    ASSUME RegistryInv, NEW j \in Jobs, NEW ok \in BOOLEAN, PersistDeferredProgress(j, ok) PROVE RegistryInv'
<1> USE NoneIsNothing DEF RegistryInv
<1>1. /\ up /\ row' = [row EXCEPT ![j] = IF ok /\ Is(mem, j, ActiveStatus) THEN Progressed(@) ELSE @]
      /\ UNCHANGED <<mem, intents, stop, end, deferredSettlements, turn, told, up>>
      BY DEF PersistDeferredProgress
<1>2. CASE Is(mem, j, ActiveStatus)
  <2>1. mem[j] \in JobRows /\ mem'[j] = mem[j] BY <1>1, <1>2 DEF RegistryTypeOK, Is
  <2>2. row'[j] \in {row[j], Progressed(row[j])} BY <1>1 DEF RegistryTypeOK
  <2>3. row'[j] \in JobRows /\ RowGoesOn(j) /\ JobInv(j)'
        BY <1>1, <1>2, <2>1, <2>2, ActiveChanges DEF JobInv, ToldIsOver, Is
  <2>4. row' = [row EXCEPT ![j] = row'[j]] BY <1>1 DEF RegistryTypeOK
  <2>5. RegistryTypeOK' BY <1>1, <2>3, <2>4 DEF RegistryTypeOK
  <2>6. \A k \in Jobs \ {j} : JobState(k)' = JobState(k) BY <1>1 DEF JobState, RegistryTypeOK
  <2> QED BY <1>1, <2>1, <2>3, <2>5, <2>6, OneJob, SameIntents
<1>3. CASE ~Is(mem, j, ActiveStatus)
  <2>1. row' = row BY <1>1, <1>3 DEF RegistryTypeOK
  <2>2. RegistryTypeOK' BY <1>1, <2>1 DEF RegistryTypeOK
  <2>3. \A k \in Jobs : JobState(k)' = JobState(k) BY <1>1, <2>1 DEF JobState
  <2>4. RowGoesOn(j) BY <2>3, RowFrame
  <2>5. JobInv(j)' BY <2>3, JobFrame
  <2> QED BY <1>1, <2>2, <2>3, <2>4, <2>5, OneJob, SameIntents
<1> QED BY <1>2, <1>3

\* Steps that change no row, no memory and no stop: what a turn does may only end it.
LEMMA TurnsChange ==
    ASSUME RegistryInv, UNCHANGED <<mem, row, intents, stop, end, deferredSettlements, told, up>>,
           turn' \in [Jobs -> Turns], \A j \in Jobs : TurnGoesOn(j)
    PROVE  RegistryInv'
<1> USE DEF RegistryInv
<1>1. RegistryTypeOK' BY DEF RegistryTypeOK
<1>2. \A j \in Jobs : JobInv(j)' BY JobRests DEF JobRest
<1>3. \A j \in Jobs : RowGoesOn(j) BY DEF RowGoesOn, Over, TurnGoesOn, StopEnded, Is
<1>4. DispatchedStay /\ SucceededStay BY DEF DispatchedStay, SucceededStay
<1>5. NamedAreOpen' /\ NamedOnce' BY <1>4, QuietNames DEF TurnGoesOn
<1>6. Proven' BY <1>3, <1>4, QuietProven
<1> QED BY <1>1, <1>2, <1>5, <1>6

LEMMA TurnEndsStep == ASSUME RegistryInv, NEW j \in Jobs, NEW o \in Results, TurnEnds(j, o) PROVE RegistryInv'
<1>1. /\ turn' = [turn EXCEPT ![j] = o]
      /\ UNCHANGED <<mem, row, intents, stop, end, deferredSettlements, told, up>>
      BY DEF TurnEnds
<1>2. o \in Outcomes /\ o # "running" BY RegistryAssumption DEF Outcomes
<1>3. turn' \in [Jobs -> Turns] /\ \A k \in Jobs : TurnGoesOn(k)
      BY <1>1, <1>2 DEF RegistryInv, RegistryTypeOK, Turns, TurnGoesOn, Outcomes
<1> QED BY <1>1, <1>3, TurnsChange

LEMMA LostTurns ==
    ASSUME turn \in [Jobs -> Turns]
    PROVE  /\ Lost(turn) \in [Jobs -> Turns]
           /\ \A j \in Jobs : /\ Lost(turn)[j] # "running"
                              /\ Lost(turn)[j] = turn[j] \/ (turn[j] = "running" /\ Lost(turn)[j] = "lost")
BY DEF Lost, Turns, Outcomes

LEMMA WorkerLostStep == ASSUME RegistryInv, WorkerLost PROVE RegistryInv'
<1>1. turn' = Lost(turn) /\ UNCHANGED <<mem, row, intents, stop, end, deferredSettlements, told, up>>
      BY DEF WorkerLost
<1>2. turn' \in [Jobs -> Turns] /\ \A j \in Jobs : TurnGoesOn(j)
      BY <1>1, LostTurns DEF RegistryInv, RegistryTypeOK, TurnGoesOn
<1> QED BY <1>1, <1>2, TurnsChange

--------------------------------------------------------------------------
(* Settlement *)

LEMMA AcceptedRow ==
    ASSUME NEW old \in JobRows \cup {None}, NEW c \in JobRows, ~Ends(old, c), Accepts(old, c)
    PROVE  /\ Upserted(old, c) \in JobRows /\ Upserted(old, c).status = c.status
           /\ c.origin # None => Upserted(old, c).origin = c.origin
<1> USE NoneIsNothing
<1>1. Upserted(old, c) = Merged(old, c) BY DEF Upserted
<1>2. CASE old = None BY <1>1, <1>2 DEF Merged
<1>3. CASE old # None
  <2>1. Merged(old, c) = [c EXCEPT !.origin = Coalesce(c.origin, old.origin), !.intent = Coalesce(c.intent, old.intent)]
        BY <1>3 DEF Merged
  <2>2. Coalesce(c.origin, old.origin) \in Origins \cup {None} /\ Coalesce(c.intent, old.intent) \in Nat \cup {None}
        BY <1>3 DEF Coalesce, JobRows
  <2>3. /\ Merged(old, c) \in JobRows /\ Merged(old, c).status = c.status
        /\ Merged(old, c).origin = Coalesce(c.origin, old.origin)
        BY <2>1, <2>2 DEF JobRows
  <2> QED BY <1>1, <2>3 DEF Coalesce
<1> QED BY <1>2, <1>3

\* The failure of a commit is written over a row that is still active.
LEMMA FailureIsTaken ==
    ASSUME NEW old \in JobRows, NEW c \in JobRows, c.status = "failed", c.origin = None,
           old.status \in ActiveStatus => old.origin = None
    PROVE  /\ Upserted(old, c) \in JobRows /\ Upserted(old, c).status \in TerminalStatus
           /\ Upserted(old, c) = old \/ Upserted(old, c).origin \notin StopOrigins
<1> USE NoneIsNothing
<1>1. "failed" \in TerminalStatus \ ActiveStatus BY DEF TerminalStatus, ActiveStatus, Live
<1>2. CASE old.status \in TerminalStatus
  <2>1. Upserted(old, c) \in JobRows /\ Upserted(old, c).status \in TerminalStatus BY <1>2, EndedStays
  <2>2. CASE Upserted(old, c) # old
    <3>1. Accepts(old, c) /\ Upserted(old, c).origin = old.origin /\ Upserted(old, c).status = "failed"
          BY <2>2, UpsertedRow
    <3>2. Merged(old, c) = Upserted(old, c) BY <2>2 DEF Upserted
    <3>3. Upserted(old, c).origin # None => StatusOfOrigin[Upserted(old, c).origin] = "failed"
          BY <3>1, <3>2 DEF Accepts
    <3>4. \A o \in StopOrigins : StatusOfOrigin[o] # "failed" BY DEF StopOrigins, StatusOfOrigin, Origins
    <3> QED BY <2>1, <3>3, <3>4
  <2> QED BY <2>1, <2>2
<1>3. CASE old.status \in ActiveStatus
  <2>1. Merged(old, c).origin = None /\ Merged(old, c).status = "failed"
        BY <1>3 DEF Merged, Coalesce, JobRows
  <2>2. Accepts(old, c) BY <2>1 DEF Accepts, Origins
  <2>3. ~Ends(old, c) BY <1>1 DEF Ends
  <2>4. Upserted(old, c) \in JobRows /\ Upserted(old, c).status = "failed" BY <2>2, <2>3, AcceptedRow
  <2>5. Upserted(old, c).origin = None BY <2>1, <2>2, <2>3 DEF Upserted
  <2> QED BY <1>1, <2>4, <2>5
<1> QED BY <1>2, <1>3 DEF JobRows

LEMMA AcknowledgedTurns ==
    ASSUME NEW t \in [Jobs -> Turns], NEW m, NEW js
    PROVE  /\ Acknowledged(t, m, js) \in [Jobs -> Turns]
           /\ \A j \in Jobs : Acknowledged(t, m, js)[j] = "running" <=> t[j] = "running"
           /\ \A j \in Jobs : Acknowledged(t, m, js)[j] = "none" <=> t[j] = "none"
           /\ \A j \in Jobs : Acknowledged(t, m, js)[j] = t[j] \/ Is(m, j, TerminalStatus)
           /\ \A j \in Jobs \ js : Acknowledged(t, m, js)[j] = t[j]
BY DEF Acknowledged, Turns, Outcomes

\* A Job ends, on record and in memory, by itself.
LEMMA JobEnds ==
    ASSUME RegistryInv, NEW j \in Jobs, up, mem[j] # None, NEW c \in JobRows, c.status \in TerminalStatus,
           c.dispatched = mem[j].dispatched, mem'[j] = c,
           row'[j] \in JobRows, row'[j].status \in TerminalStatus,
           StopEnded(row', j) => StopEnded(row, j) /\ row'[j].intent = row[j].intent,
           turn'[j] = "running" => turn[j] = "running",
           ToldIsOver(j)', stop'[j] \in {stop[j], None}, up' = up
    PROVE  RowGoesOn(j) /\ JobInv(j)'
<1> USE NoneIsNothing DEF RegistryInv
<1>1. row'[j] # None /\ c # None OBVIOUS
<1>2. row'[j].status \notin ActiveStatus /\ c.status \notin ActiveStatus BY ActiveOrTerminal
<1>3. RowGoesOn(j) BY <1>1, <1>2 DEF RowGoesOn, Over, Is
<1>4. InMemory(j)' /\ EndedOnRecord(j)' /\ ActiveIsOpen(j)' /\ Kept(j)'
      BY <1>1, <1>2 DEF InMemory, EndedOnRecord, ActiveIsOpen, Kept, Is
<1>5. RunningIsDispatched(j)' BY <1>1, <1>2 DEF JobInv, RunningIsDispatched, Is
<1> QED BY <1>3, <1>4, <1>5 DEF JobInv

LEMMA SettledJob ==
    ASSUME NEW job \in JobRows, NEW o \in Outcomes
    PROVE  /\ Settled(job, o) \in JobRows /\ Settled(job, o).status \in TerminalStatus
           /\ Settled(job, o).origin \in Origins \ StopOrigins
           /\ Settled(job, o).dispatched = job.dispatched
           /\ CommitFailed(job) \in JobRows /\ CommitFailed(job).status = "failed"
           /\ CommitFailed(job).origin = None /\ CommitFailed(job).dispatched = job.dispatched
<1>1. OriginOf[o] \in Origins \ StopOrigins BY DEF OriginOf, Outcomes, Origins, StopOrigins
<1>3. StatusOfOrigin[OriginOf[o]] \in TerminalStatus BY <1>1, OriginsHaveEnds
<1>2. "failed" \in TerminalStatus BY DEF TerminalStatus
<1> QED BY <1>1, <1>2, <1>3 DEF Settled, CommitFailed, JobRows

LEMMA SettleStep == ASSUME RegistryInv, NEW j \in Jobs, NEW ok \in BOOLEAN, SettleExecution(j, ok) PROVE RegistryInv'
<1> USE NoneIsNothing DEF RegistryInv
<1> DEFINE o == Outcome(j)
           c == Settled(mem[j], o)
           f == CommitFailed(mem[j])
<1>1. /\ up /\ mem[j] # None /\ told' = [told EXCEPT ![j] = TRUE] /\ UNCHANGED <<stop, up>>
      /\ end[j] # None \/ turn[j] \in Outcomes
      BY DEF SettleExecution
<1>2. o \in Outcomes /\ o # None BY <1>1 DEF Outcome, RegistryTypeOK
<1>3. mem[j] \in JobRows /\ row[j] \in JobRows /\ row[j] # None
      BY <1>1 DEF JobInv, InMemory, RegistryTypeOK
<1>4. /\ c \in JobRows /\ c.status \in TerminalStatus /\ c.origin \in Origins \ StopOrigins /\ c.dispatched = mem[j].dispatched
      /\ f \in JobRows /\ f.status = "failed" /\ f.origin = None /\ f.dispatched = mem[j].dispatched
      BY <1>2, <1>3, SettledJob
<1>5. \/ /\ mem[j].status = "terminating"
         /\ deferredSettlements' = [deferredSettlements EXCEPT ![j] = o] /\ end' = [end EXCEPT ![j] = None]
         /\ UNCHANGED <<mem, row, intents, turn>>
      \/ /\ mem[j].status # "terminating" /\ mem[j].status \notin Live
         /\ end' = [end EXCEPT ![j] = None] /\ turn' = Acknowledged(turn, mem, {j})
         /\ UNCHANGED <<mem, row, intents, deferredSettlements>>
      \/ /\ mem[j].status \in Live /\ Accepts(row[j], c)
         /\ mem' = [mem EXCEPT ![j] = c] /\ row' = [row EXCEPT ![j] = Upserted(@, c)]
         /\ end' = [end EXCEPT ![j] = None] /\ intents' = [intents EXCEPT ![j] = Aged(@)]
         /\ turn' = Acknowledged(turn, mem', {j}) /\ UNCHANGED deferredSettlements
      \/ /\ mem[j].status \in Live /\ end' = [end EXCEPT ![j] = o]
         /\ UNCHANGED <<mem, row, intents, deferredSettlements, turn>>
      \/ /\ mem[j].status \in Live /\ j \notin Receipted
         /\ end' = [end EXCEPT ![j] = None] /\ UNCHANGED <<deferredSettlements, turn>>
         /\ mem' = [mem EXCEPT ![j] = f] /\ row' = [row EXCEPT ![j] = Upserted(@, mem'[j])]
         /\ intents' = [intents EXCEPT ![j] = Aged(@)]
      \/ /\ j \notin Receipted /\ end' = [end EXCEPT ![j] = None]
         /\ UNCHANGED <<mem, row, intents, deferredSettlements, turn>>
      BY DEF SettleExecution, MaySettle
<1> HIDE DEF o, c, f
<1>6. end' \in [Jobs -> Outcomes \cup {None}] /\ \A k \in Jobs \ {j} : end'[k] = end[k]
      BY <1>2, <1>5 DEF RegistryTypeOK
<1>7. told' \in [Jobs -> BOOLEAN] /\ told'[j] /\ \A k \in Jobs \ {j} : told'[k] = told[k]
      BY <1>1 DEF RegistryTypeOK
\* The turn is over; and if the owner has forgotten it, the Job has ended.
<1>a. turn[j] \notin {"none", "running"}
  <2>1. CASE end[j] # None BY <2>1 DEF JobInv, ToldIsOver
  <2>2. CASE turn[j] \in Outcomes BY <2>2 DEF Outcomes
  <2> QED BY <1>1, <2>1, <2>2
<1>b. j \in Receipted => Is(row, j, TerminalStatus) \/ StopEnded(mem, j) \/ turn[j] # "released"
  <2>1. CASE end[j] # None BY <1>1, <2>1 DEF JobInv, ToldIsOver, Kept
  <2>2. CASE turn[j] \in Outcomes BY <2>2 DEF Outcomes
  <2> QED BY <1>1, <2>1, <2>2
<1>c. turn \in [Jobs -> Turns] /\ deferredSettlements \in [Jobs -> Outcomes \cup {None}] BY DEF RegistryTypeOK
\* The outcome waits for a stop, or for the database, or was known already.
<1>8. ASSUME UNCHANGED <<mem, row, intents>>,
             deferredSettlements' \in [Jobs -> Outcomes \cup {None}],
             \A k \in Jobs \ {j} : deferredSettlements'[k] = deferredSettlements[k] /\ turn'[k] = turn[k],
             turn' \in [Jobs -> Turns], turn'[j] \notin {"none", "running"},
             Kept(j)'
      PROVE  RegistryInv'
  <2>1. RegistryTypeOK' BY <1>1, <1>6, <1>7, <1>8 DEF RegistryTypeOK
  <2>2. JobInv(j)'
        BY <1>1, <1>7, <1>8
        DEF JobInv, InMemory, EndedOnRecord, ActiveIsOpen, RunningIsDispatched, ToldIsOver, StopEnded, Is
  <2>3. RowGoesOn(j) BY <1>8 DEF RowGoesOn, Over, StopEnded, Is
  <2>4. \A k \in Jobs \ {j} : JobState(k)' = JobState(k) BY <1>1, <1>6, <1>7, <1>8 DEF JobState
  <2> QED BY <1>1, <1>8, <2>1, <2>2, <2>3, <2>4, OneJob, SameIntents
<1>9. ASSUME NEW d \in {c, f}, mem' = [mem EXCEPT ![j] = d], row' = [row EXCEPT ![j] = Upserted(@, d)],
             Upserted(row[j], d) \in JobRows, Upserted(row[j], d).status \in TerminalStatus,
             Upserted(row[j], d) = row[j] \/ Upserted(row[j], d).origin \notin StopOrigins,
             intents' = [intents EXCEPT ![j] = Aged(@)], UNCHANGED deferredSettlements,
             turn' \in [Jobs -> Turns], turn'[j] \notin {"none", "running"},
             \A k \in Jobs \ {j} : turn'[k] = turn[k]
      PROVE  RegistryInv'
  <2>1. d \in JobRows /\ d.status \in TerminalStatus /\ d.dispatched = mem[j].dispatched
        BY <1>4, <1>9 DEF TerminalStatus
  <2>2. mem'[j] = d /\ row'[j] = Upserted(row[j], d) BY <1>9 DEF RegistryTypeOK
  <2>3. stop'[j] \in {stop[j], None} /\ ToldIsOver(j)' BY <1>1, <1>7, <1>9 DEF ToldIsOver
  <2>a. StopEnded(row', j) => StopEnded(row, j) /\ row'[j].intent = row[j].intent
        BY <1>9, <2>2 DEF StopEnded
  <2>4. RowGoesOn(j) /\ JobInv(j)' BY <1>1, <1>9, <2>1, <2>2, <2>3, <2>a, JobEnds
  <2>5. QuietIntents /\ intents' \in [Jobs -> Seq(IntentRows)] BY <1>9, AgedIntents
  <2>6. RegistryTypeOK' BY <1>1, <1>6, <1>7, <1>9, <2>1, <2>5 DEF RegistryTypeOK
  <2>7. \A k \in Jobs \ {j} : JobState(k)' = JobState(k)
        BY <1>1, <1>6, <1>7, <1>9 DEF JobState, RegistryTypeOK
  <2> QED BY <1>1, <1>9, <2>1, <2>2, <2>4, <2>5, <2>6, <2>7, OneJob
<1>11. CASE /\ mem[j].status = "terminating"
            /\ deferredSettlements' = [deferredSettlements EXCEPT ![j] = o]
            /\ UNCHANGED <<mem, row, intents, turn>>
  <2>1. Kept(j)' BY <1>2, <1>b, <1>c, <1>11 DEF Kept, StopEnded, Is
  <2> QED BY <1>2, <1>8, <1>a, <1>c, <1>11, <2>1
<1>12. CASE /\ mem[j].status # "terminating" /\ mem[j].status \notin Live
            /\ turn' = Acknowledged(turn, mem, {j}) /\ UNCHANGED <<mem, row, intents, deferredSettlements>>
  <2>1. mem[j].status \in TerminalStatus BY <1>3, <1>12 DEF JobRows, ActiveStatus
  <2>2. Is(row', j, TerminalStatus) \/ StopEnded(mem', j)
        BY <1>1, <1>12, <2>1 DEF JobInv, EndedOnRecord, StopEnded, Is
  <2>3. Kept(j)' BY <2>2 DEF Kept
  <2>4. /\ turn' \in [Jobs -> Turns] /\ turn'[j] \notin {"none", "running"}
        /\ \A k \in Jobs \ {j} : turn'[k] = turn[k]
        BY <1>a, <1>c, <1>12, AcknowledgedTurns
  <2> QED BY <1>8, <1>c, <1>12, <2>3, <2>4
<1>13. CASE /\ mem[j].status \in Live /\ Accepts(row[j], c)
            /\ mem' = [mem EXCEPT ![j] = c] /\ row' = [row EXCEPT ![j] = Upserted(@, c)]
            /\ intents' = [intents EXCEPT ![j] = Aged(@)]
            /\ turn' = Acknowledged(turn, mem', {j}) /\ UNCHANGED deferredSettlements
  <2>1. ~Ends(row[j], c) BY <1>4, ActiveOrTerminal DEF Ends
  <2>2. /\ Upserted(row[j], c) \in JobRows /\ Upserted(row[j], c).status = c.status
        /\ Upserted(row[j], c).origin = c.origin
        BY <1>3, <1>4, <1>13, <2>1, AcceptedRow
  <2>3. /\ turn' \in [Jobs -> Turns] /\ turn'[j] \notin {"none", "running"}
        /\ \A k \in Jobs \ {j} : turn'[k] = turn[k]
        BY <1>a, <1>c, <1>13, AcknowledgedTurns
  <2> QED BY <1>4, <1>9, <1>13, <2>2, <2>3
<1>14. CASE end' = [end EXCEPT ![j] = o] /\ UNCHANGED <<mem, row, intents, deferredSettlements, turn>>
  <2>1. Kept(j)' BY <1>2, <1>b, <1>14 DEF Kept, StopEnded, RegistryTypeOK, Is
  <2> QED BY <1>8, <1>a, <1>c, <1>14, <2>1
<1>15. CASE /\ mem[j].status \in Live /\ UNCHANGED <<deferredSettlements, turn>>
            /\ mem' = [mem EXCEPT ![j] = f] /\ row' = [row EXCEPT ![j] = Upserted(@, mem'[j])]
            /\ intents' = [intents EXCEPT ![j] = Aged(@)]
  <2>1. row[j].status \in ActiveStatus => row[j].origin = None BY <1>3 DEF JobInv, ActiveIsOpen, Is
  <2>2. /\ Upserted(row[j], f) \in JobRows /\ Upserted(row[j], f).status \in TerminalStatus
        /\ Upserted(row[j], f) = row[j] \/ Upserted(row[j], f).origin \notin StopOrigins
        BY <1>3, <1>4, <2>1, FailureIsTaken
  <2>3. row' = [row EXCEPT ![j] = Upserted(@, f)] BY <1>15 DEF RegistryTypeOK
  <2> QED BY <1>9, <1>a, <1>c, <1>15, <2>2, <2>3
<1>16. CASE j \notin Receipted /\ UNCHANGED <<mem, row, intents, deferredSettlements, turn>>
  <2>1. Kept(j)' BY <1>16 DEF Kept
  <2> QED BY <1>8, <1>a, <1>c, <1>16, <2>1
<1> QED BY <1>5, <1>11, <1>12, <1>13, <1>14, <1>15, <1>16

--------------------------------------------------------------------------
(* A stop begins *)

\* A list of intents that goes on: none succeeds, and none that was dispatched changes.
LEMMA QuietList ==
    ASSUME RegistryTypeOK, NEW j \in Jobs, NEW new \in Seq(IntentRows), DOMAIN intents[j] \subseteq DOMAIN new,
           \A i \in DOMAIN intents[j] :
              intents[j][i].status \in {"dispatched", "succeeded"} => new[i].status = intents[j][i].status,
           \A i \in DOMAIN new :
              new[i].status = "succeeded" => i \in DOMAIN intents[j] /\ intents[j][i].status = "succeeded",
           intents' \in {[intents EXCEPT ![j] = new], [intents EXCEPT ![j] = Aged(new)]}
    PROVE  QuietIntents /\ intents' \in [Jobs -> Seq(IntentRows)]
<1>1. /\ Aged(new) \in Seq(IntentRows) /\ DOMAIN Aged(new) = DOMAIN new
      /\ \A i \in DOMAIN new : Aged(new)[i].status = new[i].status
      BY AgedList
<1>2. intents'[j] \in {new, Aged(new)} /\ \A k \in Jobs \ {j} : intents'[k] = intents[k] BY DEF RegistryTypeOK
<1>3. /\ DOMAIN intents'[j] = DOMAIN new
      /\ \A i \in DOMAIN new : intents'[j][i].status = new[i].status
      BY <1>1, <1>2
<1>4. QuietIntents BY <1>2, <1>3 DEF QuietIntents
<1>5. intents' \in [Jobs -> Seq(IntentRows)] BY <1>1 DEF RegistryTypeOK
<1> QED BY <1>4, <1>5

\* A new intent is recorded.
LEMMA RecordedIntents ==
    ASSUME RegistryTypeOK, NEW j \in Jobs,
           \/ intents' = [intents EXCEPT ![j] = Append(@, NewIntent)]
           \/ intents' = [intents EXCEPT ![j] = Aged(Append(@, NewIntent))]
    PROVE  QuietIntents /\ intents' \in [Jobs -> Seq(IntentRows)]
<1> DEFINE new == Append(intents[j], NewIntent)
<1>1. intents[j] \in Seq(IntentRows) BY DEF RegistryTypeOK
<1>2. /\ new \in Seq(IntentRows) /\ DOMAIN new = DOMAIN intents[j] \cup {Len(intents[j]) + 1}
      /\ \A i \in DOMAIN intents[j] : new[i] = intents[j][i]
      /\ new[Len(intents[j]) + 1].status = "recorded"
      BY <1>1, AppendedList
<1>3. intents' \in {[intents EXCEPT ![j] = new], [intents EXCEPT ![j] = Aged(new)]} OBVIOUS
<1> HIDE DEF new
<1> QED BY <1>2, <1>3, QuietList

\* An intent that was only recorded is answered.
LEMMA AnsweredIntents ==
    ASSUME RegistryTypeOK, NEW j \in Jobs, NEW n \in DOMAIN intents[j], intents[j][n].status = "recorded",
           NEW status \in {"no-op", "failed"},
           \/ intents' = [intents EXCEPT ![j] = Marked(@, n, status)]
           \/ intents' = [intents EXCEPT ![j] = Aged(Marked(@, n, status))]
    PROVE  QuietIntents /\ intents' \in [Jobs -> Seq(IntentRows)]
<1> DEFINE old == intents[j]
           new == Marked(old, n, status)
<1>1. old \in Seq(IntentRows) /\ n \in DOMAIN old /\ old[n].status = "recorded" BY DEF RegistryTypeOK
<1>2. status \in IntentStatus /\ status \notin {"dispatched", "succeeded"} BY DEF IntentStatus
<1>3. intents' \in {[intents EXCEPT ![j] = new], [intents EXCEPT ![j] = Aged(new)]} OBVIOUS
<1> HIDE DEF old
<1>4. /\ new \in Seq(IntentRows) /\ DOMAIN new = DOMAIN old
      /\ \A i \in DOMAIN old : new[i].status = IF i = n THEN status ELSE old[i].status
      BY <1>1, <1>2, MarkedList
<1> HIDE DEF new
<1> QED BY <1>1, <1>2, <1>3, <1>4, QuietList DEF old

\* Only the intents have changed.
LEMMA OnlyIntents ==
    ASSUME RegistryInv, QuietIntents, intents' \in [Jobs -> Seq(IntentRows)], NEW j \in Jobs,
           UNCHANGED <<mem, row, stop, end, deferredSettlements, turn, told, up>>
    PROVE  RegistryInv'
<1> USE DEF RegistryInv
<1>1. RegistryTypeOK' BY DEF RegistryTypeOK
<1>2. \A k \in Jobs : JobState(k)' = JobState(k) BY DEF JobState
<1>3. JobInv(j)' /\ RowGoesOn(j) BY <1>2, JobFrame, RowFrame
<1> QED BY <1>1, <1>2, <1>3, OneJob

LEMMA BeginStep == ASSUME RegistryInv, NEW j \in Jobs, BeginCancellationOperation(j) PROVE RegistryInv'
<1>1. QuietIntents /\ intents' \in [Jobs -> Seq(IntentRows)]
      BY RecordedIntents DEF BeginCancellationOperation, RegistryInv
<1> QED BY <1>1, OnlyIntents DEF BeginCancellationOperation

\* The table a stop begins with: the intents so far, and recorded ones.
Extends(list) ==
    /\ list \in [Jobs -> Seq(IntentRows)]
    /\ \A k \in Jobs :
          /\ DOMAIN intents[k] \subseteq DOMAIN list[k]
          /\ \A i \in DOMAIN list[k] :
                list[k][i].status = IF i \in DOMAIN intents[k] THEN intents[k][i].status ELSE "recorded"

\* The intents a stop leaves open, and where.
Sent(j, n, list, peers) == [p \in Jobs |->
    CASE p = j -> Marked(Aged(list[j]), n, "dispatched")
      [] p \in peers -> Marked(Append(list[p], NewIntent), Len(list[p]) + 1, "dispatched")
      [] OTHER -> list[p]]

LEMMA SentIntents ==
    ASSUME NEW j \in Jobs, NEW list, Extends(list), NEW n \in DOMAIN list[j], list[j][n].status = "recorded",
           NEW peers \in SUBSET (Jobs \ {j}), intents' = Sent(j, n, list, peers)
    PROVE  /\ QuietIntents /\ intents' \in [Jobs -> Seq(IntentRows)]
           /\ n \in DOMAIN intents'[j] /\ intents'[j][n].status = "dispatched"
           /\ n \in DOMAIN intents[j] => intents[j][n].status # "dispatched"
           /\ \A p \in peers :
                 /\ Len(intents'[p]) \in Nat /\ Len(intents'[p]) \in DOMAIN intents'[p]
                 /\ Len(intents'[p]) \notin DOMAIN intents[p]
                 /\ intents'[p][Len(intents'[p])].status = "dispatched"
<1>1. \A k \in Jobs : list[k] \in Seq(IntentRows) BY DEF Extends
<1>2. /\ intents'[j] \in Seq(IntentRows) /\ DOMAIN intents'[j] = DOMAIN list[j]
      /\ \A i \in DOMAIN list[j] : intents'[j][i].status = IF i = n THEN "dispatched" ELSE list[j][i].status
  <2>1. intents'[j] = Marked(Aged(list[j]), n, "dispatched") BY DEF Sent
  <2>2. /\ Aged(list[j]) \in Seq(IntentRows) /\ DOMAIN Aged(list[j]) = DOMAIN list[j]
        /\ \A i \in DOMAIN list[j] : Aged(list[j])[i].status = list[j][i].status
        BY <1>1, AgedList
  <2> DEFINE aged == Aged(list[j])
  <2> HIDE DEF aged
  <2>3. /\ aged \in Seq(IntentRows) /\ DOMAIN aged = DOMAIN list[j]
        /\ \A i \in DOMAIN list[j] : aged[i].status = list[j][i].status
        BY <2>2 DEF aged
  <2>4. intents'[j] = Marked(aged, n, "dispatched") BY <2>1 DEF aged
  <2>5. /\ Marked(aged, n, "dispatched") \in Seq(IntentRows)
        /\ DOMAIN Marked(aged, n, "dispatched") = DOMAIN aged
        /\ \A i \in DOMAIN aged :
              Marked(aged, n, "dispatched")[i].status = IF i = n THEN "dispatched" ELSE aged[i].status
    <3>1. "dispatched" \in IntentStatus BY DEF IntentStatus
    <3> QED BY <2>3, <3>1, MarkedList
  <2> QED BY <2>3, <2>4, <2>5
<1>3. ASSUME NEW p \in peers
      PROVE  /\ intents'[p] \in Seq(IntentRows) /\ DOMAIN intents'[p] = DOMAIN list[p] \cup {Len(list[p]) + 1}
             /\ Len(list[p]) + 1 \notin DOMAIN list[p] /\ Len(intents'[p]) = Len(list[p]) + 1
             /\ \A i \in DOMAIN list[p] : intents'[p][i].status = list[p][i].status
             /\ intents'[p][Len(list[p]) + 1].status = "dispatched"
  <2>1. intents'[p] = Marked(Append(list[p], NewIntent), Len(list[p]) + 1, "dispatched") BY <1>3 DEF Sent
  <2>2. list[p] \in Seq(IntentRows) BY <1>1
  <2>3. /\ Append(list[p], NewIntent) \in Seq(IntentRows)
        /\ DOMAIN Append(list[p], NewIntent) = DOMAIN list[p] \cup {Len(list[p]) + 1}
        /\ Len(list[p]) + 1 \notin DOMAIN list[p]
        /\ \A i \in DOMAIN list[p] : Append(list[p], NewIntent)[i] = list[p][i]
        BY <2>2, AppendedList
  <2> DEFINE longer == Append(list[p], NewIntent)
             last == Len(list[p]) + 1
  <2> HIDE DEF longer, last
  <2>a. /\ longer \in Seq(IntentRows) /\ DOMAIN longer = DOMAIN list[p] \cup {last} /\ last \notin DOMAIN list[p]
        /\ \A i \in DOMAIN list[p] : longer[i] = list[p][i]
        BY <2>3 DEF longer, last
  <2>b. /\ Marked(longer, last, "dispatched") \in Seq(IntentRows)
        /\ DOMAIN Marked(longer, last, "dispatched") = DOMAIN longer
        /\ \A i \in DOMAIN longer :
              Marked(longer, last, "dispatched")[i].status = IF i = last THEN "dispatched" ELSE longer[i].status
    <3>1. last \in DOMAIN longer /\ longer \in Seq(IntentRows) BY <2>a
    <3>2. "dispatched" \in IntentStatus BY DEF IntentStatus
    <3> QED BY <3>1, <3>2, MarkedList
  <2>c. intents'[p] = Marked(longer, last, "dispatched") BY <2>1 DEF longer, last
  <2>4. /\ intents'[p] \in Seq(IntentRows) /\ DOMAIN intents'[p] = DOMAIN list[p] \cup {Len(list[p]) + 1}
        /\ \A i \in DOMAIN list[p] : intents'[p][i].status = list[p][i].status
        /\ intents'[p][Len(list[p]) + 1].status = "dispatched"
        BY <2>a, <2>b, <2>c DEF last
  <2>5. Len(intents'[p]) = Len(list[p]) + 1
    <3>1. DOMAIN intents'[p] = 1 .. Len(intents'[p]) /\ DOMAIN list[p] = 1 .. Len(list[p])
          /\ Len(intents'[p]) \in Nat /\ Len(list[p]) \in Nat
          BY <2>2, <2>4
    <3> QED BY <2>4, <3>1
  <2> QED BY <2>3, <2>4, <2>5
<1>4. \A p \in Jobs \ (peers \cup {j}) : intents'[p] = list[p] BY DEF Sent
<1>5. intents' \in [Jobs -> Seq(IntentRows)]
  <2>1. \A p \in Jobs : intents'[p] \in Seq(IntentRows) BY <1>1, <1>2, <1>3, <1>4
  <2>2. intents' = [p \in Jobs |-> intents'[p]] BY DEF Sent
  <2> QED BY <2>1, <2>2
<1>6. n \in DOMAIN intents[j] => intents[j][n].status = "recorded" BY DEF Extends
<1>7. QuietIntents
  <2> SUFFICES ASSUME NEW k \in Jobs
               PROVE  /\ DOMAIN intents[k] \subseteq DOMAIN intents'[k]
                      /\ \A i \in DOMAIN intents[k] :
                            intents[k][i].status \in {"dispatched", "succeeded"}
                                => intents'[k][i].status = intents[k][i].status
                      /\ \A i \in DOMAIN intents'[k] : intents'[k][i].status = "succeeded"
                            => i \in DOMAIN intents[k] /\ intents[k][i].status = "succeeded"
      BY DEF QuietIntents
  <2>1. CASE k = j BY <1>2, <1>6, <2>1 DEF Extends
  <2>2. CASE k \in peers
    <3>1. /\ DOMAIN intents'[k] = DOMAIN list[k] \cup {Len(list[k]) + 1}
          /\ \A i \in DOMAIN list[k] : intents'[k][i].status = list[k][i].status
          /\ intents'[k][Len(list[k]) + 1].status = "dispatched"
          /\ Len(list[k]) + 1 \notin DOMAIN list[k]
          BY <1>3, <2>2
    <3>2. /\ DOMAIN intents[k] \subseteq DOMAIN list[k]
          /\ \A i \in DOMAIN list[k] :
                list[k][i].status = IF i \in DOMAIN intents[k] THEN intents[k][i].status ELSE "recorded"
          BY DEF Extends
    <3> HIDE DEF Sent
    <3> QED BY <3>1, <3>2
  <2>3. CASE k \notin peers \cup {j} BY <1>4, <2>3 DEF Extends
  <2> QED BY <2>1, <2>2, <2>3
<1>8. ASSUME NEW p \in peers
      PROVE  /\ Len(intents'[p]) \in Nat /\ Len(intents'[p]) \in DOMAIN intents'[p]
             /\ Len(intents'[p]) \notin DOMAIN intents[p]
             /\ intents'[p][Len(intents'[p])].status = "dispatched"
      BY <1>1, <1>3, <1>8 DEF Extends
<1> QED BY <1>2, <1>5, <1>6, <1>7, <1>8

\* The stop names intents that nobody has dispatched before: its own, and new ones.
LEMMA NewNames ==
    ASSUME RegistryInv, NEW j \in Jobs, stop[j] = None, NEW s \in StopRows, stop' = [stop EXCEPT ![j] = s],
           QuietIntents, \A k \in Jobs : mem[k] # None => mem'[k] # None, UNCHANGED turn,
           DOMAIN s.peers \subseteq Jobs \ {j},
           \A p \in DOMAIN Names(s, j) :
              /\ mem[p] # None /\ turn[p] # "none"
              /\ Names(s, j)[p] \in DOMAIN intents'[p]
              /\ intents'[p][Names(s, j)[p]].status = "dispatched"
              /\ Names(s, j)[p] \in DOMAIN intents[p] => intents[p][Names(s, j)[p]].status # "dispatched"
    PROVE  NamedAreOpen' /\ NamedOnce'
<1> USE NoneIsNothing DEF RegistryInv
<1>1. s # None OBVIOUS
<1>2. stop'[j] = s /\ \A k \in Jobs \ {j} : stop'[k] = stop[k] BY DEF RegistryTypeOK
<1>3. DOMAIN Names(s, j) \subseteq Jobs BY DEF Names
<1>4. ASSUME NEW k \in Jobs \ {j}, stop[k] # None
      PROVE  /\ DOMAIN stop[k].peers \subseteq Jobs \ {k} /\ DOMAIN Names(stop[k], k) \subseteq Jobs
             /\ \A p \in DOMAIN Names(stop[k], k) :
                   /\ mem'[p] # None /\ turn'[p] # "none"
                   /\ Names(stop[k], k)[p] \in DOMAIN intents[p]
                   /\ intents[p][Names(stop[k], k)[p]].status = "dispatched"
                   /\ Names(stop[k], k)[p] \in DOMAIN intents'[p]
                   /\ intents'[p][Names(stop[k], k)[p]].status = "dispatched"
  <2>1. DOMAIN stop[k].peers \subseteq Jobs \ {k} BY <1>4 DEF NamedAreOpen
  <2>2. DOMAIN Names(stop[k], k) \subseteq Jobs BY <2>1 DEF Names
  <2> QED BY <1>4, <2>1, <2>2 DEF NamedAreOpen, QuietIntents
<1>5. NamedAreOpen'
  <2> SUFFICES ASSUME NEW k \in Jobs, stop'[k] # None
               PROVE  /\ DOMAIN stop'[k].peers \subseteq Jobs \ {k}
                      /\ \A p \in DOMAIN Names(stop'[k], k) :
                            /\ mem'[p] # None /\ turn'[p] # "none"
                            /\ Names(stop'[k], k)[p] \in DOMAIN intents'[p]
                            /\ intents'[p][Names(stop'[k], k)[p]].status = "dispatched"
      BY DEF NamedAreOpen, Names
  <2>1. CASE k = j BY <1>2, <1>3, <2>1
  <2>2. CASE k # j BY <1>2, <1>4, <2>2
  <2> QED BY <2>1, <2>2
<1>6. NamedOnce'
  <2> SUFFICES ASSUME NEW i \in Jobs, NEW k \in Jobs, stop'[i] # None, stop'[k] # None, i # k
               PROVE  \A p \in DOMAIN Names(stop'[i], i) \cap DOMAIN Names(stop'[k], k) :
                         Names(stop'[i], i)[p] # Names(stop'[k], k)[p]
      BY Zenon DEF NamedOnce
  <2>1. CASE i = j BY <1>2, <1>4, <2>1
  <2>2. CASE k = j BY <1>2, <1>4, <2>2
  <2>3. CASE i # j /\ k # j BY <1>2, <2>3 DEF NamedOnce
  <2> QED BY <2>1, <2>2, <2>3
<1> QED BY <1>5, <1>6

\* The target of a stop: it is terminating, and its turn goes on.
LEMMA TerminatingJob ==
    ASSUME RegistryInv, NEW j \in Jobs, NEW n \in Nat, up, Is(mem, j, ActiveStatus), turn[j] = "running",
           mem'[j] = Terminating(mem[j], n), row'[j] \in {row[j], Upserted(row[j], mem'[j])},
           UNCHANGED <<end, deferredSettlements, turn, told, up>>
    PROVE  mem'[j] \in JobRows /\ row'[j] \in JobRows /\ RowGoesOn(j) /\ JobInv(j)'
<1> USE NoneIsNothing DEF RegistryInv
<1> DEFINE c == Terminating(mem[j], n)
<1>1. mem[j] \in JobRows /\ mem[j] # None /\ mem[j].status \in ActiveStatus BY DEF RegistryTypeOK, Is
<1>2. c \in JobRows /\ c.status = "terminating" /\ c.origin = None /\ c.dispatched = mem[j].dispatched
      BY <1>1 DEF Terminating, JobRows, ActiveStatus, Live
<1> HIDE DEF c
<1>3. mem'[j] = c BY DEF c
<1>4. c.status \in ActiveStatus BY <1>2 DEF ActiveStatus
<1>5. row'[j] \in JobRows /\ RowGoesOn(j) /\ JobInv(j)'
      BY <1>1, <1>2, <1>3, <1>4, ActiveChanges DEF JobInv, ToldIsOver
<1> QED BY <1>2, <1>3, <1>5

LEMMA StopBeginsStep ==
    ASSUME RegistryInv, NEW j \in Jobs, NEW only \in BOOLEAN, NEW list, Extends(list),
           NEW n \in DOMAIN list[j], list[j][n].status = "recorded", NEW peers \in SUBSET (Jobs \ {j}),
           up, Is(mem, j, ActiveStatus), stop[j] = None,
           \A p \in peers \cup {j} : Is(mem, p, ActiveStatus) /\ turn[p] = "running",
           NEW lost, StopBegins(j, n, only, list, peers, lost),
           UNCHANGED <<end, deferredSettlements, turn, told, up>>
    PROVE  RegistryInv'
<1> USE NoneIsNothing DEF RegistryInv
<1> DEFINE s == [intent |-> n, only |-> only, peers |-> [p \in peers |-> Len(intents'[p])]]
<1>1. \A k \in Jobs : list[k] \in Seq(IntentRows) BY DEF Extends
<1>2. n \in Nat
  <2>1. list[j] \in Seq(IntentRows) BY <1>1
  <2> QED BY <2>1
<1>3. intents' = Sent(j, n, list, peers)
  <2>1. \A p \in peers : Len(Append(list[p], NewIntent)) = Len(list[p]) + 1 BY <1>1, AppendedList
  <2> QED BY <2>1 DEF StopBegins, Sent
<1>4. /\ mem' = [mem EXCEPT ![j] = Terminating(mem[j], n)]
      /\ row' = [p \in Jobs |-> IF p \in {j} \ lost THEN Upserted(row[p], mem'[p]) ELSE row[p]]
      /\ stop' = [stop EXCEPT ![j] = s]
      BY DEF StopBegins, RecordChange
<1>5. /\ QuietIntents /\ intents' \in [Jobs -> Seq(IntentRows)]
      /\ n \in DOMAIN intents'[j] /\ intents'[j][n].status = "dispatched"
      /\ n \in DOMAIN intents[j] => intents[j][n].status # "dispatched"
      /\ \A p \in peers :
            /\ Len(intents'[p]) \in Nat /\ Len(intents'[p]) \in DOMAIN intents'[p]
            /\ Len(intents'[p]) \notin DOMAIN intents[p]
            /\ intents'[p][Len(intents'[p])].status = "dispatched"
      BY <1>3, SentIntents
<1>8. /\ s \in StopRows /\ DOMAIN s.peers = peers /\ DOMAIN Names(s, j) = peers \cup {j}
      /\ Names(s, j)[j] = n /\ \A p \in peers : Names(s, j)[p] = Len(intents'[p])
  <2>1. [p \in peers |-> Len(intents'[p])] \in [peers -> Nat] BY <1>5
  <2>2. s \in StopRows BY <1>2, <2>1 DEF StopRows
  <2> QED BY <2>2 DEF Names
<1> HIDE DEF s
<1>9. mem'[j] = Terminating(mem[j], n) /\ row'[j] \in {row[j], Upserted(row[j], mem'[j])}
      BY <1>4 DEF RegistryTypeOK
<1>10. mem'[j] \in JobRows /\ row'[j] \in JobRows /\ RowGoesOn(j) /\ JobInv(j)' BY <1>2, <1>9, TerminatingJob
<1>11. /\ mem' = [mem EXCEPT ![j] = mem'[j]] /\ row' = [row EXCEPT ![j] = row'[j]]
       BY <1>4, <1>9 DEF RegistryTypeOK
<1>12. RegistryTypeOK' BY <1>4, <1>5, <1>8, <1>10, <1>11 DEF RegistryTypeOK
<1>13. \A k \in Jobs \ {j} : JobState(k)' = JobState(k) BY <1>4, <1>11 DEF JobState, RegistryTypeOK
<1>14. \A k \in Jobs : JobInv(k)' /\ RowGoesOn(k) BY <1>10, <1>13, JobFrame, RowFrame
<1>16. Proven'
  <2>1. SucceededStay BY <1>5 DEF QuietIntents, SucceededStay
  <2> QED BY <1>14, <2>1, QuietProven
<1>17. \A k \in Jobs : mem[k] # None => mem'[k] # None BY <1>10, <1>13 DEF JobState
<1>18. \A p \in DOMAIN Names(s, j) :
          /\ mem[p] # None /\ turn[p] # "none"
          /\ Names(s, j)[p] \in DOMAIN intents'[p]
          /\ intents'[p][Names(s, j)[p]].status = "dispatched"
          /\ Names(s, j)[p] \in DOMAIN intents[p] => intents[p][Names(s, j)[p]].status # "dispatched"
       BY <1>5, <1>8 DEF Is
<1>19. DOMAIN s.peers \subseteq Jobs \ {j} BY <1>8
<1>20. NamedAreOpen' /\ NamedOnce' BY <1>4, <1>5, <1>8, <1>17, <1>18, <1>19, NewNames
<1> QED BY <1>12, <1>14, <1>16, <1>20

\* The stop was rolled back: only memory is ahead.
LEMMA NeverBeginsStep ==
    ASSUME RegistryInv, NEW j \in Jobs, NEW n \in Nat, up, Is(mem, j, ActiveStatus), turn[j] = "running",
           mem' = [mem EXCEPT ![j] = Terminating(@, n)],
           QuietIntents, intents' \in [Jobs -> Seq(IntentRows)],
           UNCHANGED <<row, stop, end, deferredSettlements, turn, told, up>>
    PROVE  RegistryInv'
<1> USE NoneIsNothing DEF RegistryInv
<1>1. mem'[j] = Terminating(mem[j], n) BY DEF RegistryTypeOK
<1>2. mem'[j] \in JobRows /\ row'[j] \in JobRows /\ RowGoesOn(j) /\ JobInv(j)' BY <1>1, TerminatingJob
<1>3. RegistryTypeOK' BY <1>1, <1>2 DEF RegistryTypeOK
<1>4. \A k \in Jobs \ {j} : JobState(k)' = JobState(k) BY DEF JobState, RegistryTypeOK
<1> QED BY <1>2, <1>3, <1>4, OneJob

\* Only a turn that is the owner's is stopped.
LEMMA MayStopRunning ==
    ASSUME NEW j \in Jobs, NEW n, NEW list, NEW peers \in SUBSET Jobs, MayStop(j, n, list, peers),
           \A p \in peers \cup {j} : Is(mem, p, ActiveStatus)
    PROVE  stop[j] = None /\ \A p \in peers \cup {j} : turn[p] = "running"
BY DEF MayStop, OriginalControl, Is

LEMMA CancelStep ==
    ASSUME RegistryInv, NEW j \in Jobs, NEW n \in 1 .. MaxStops, NEW only \in BOOLEAN, NEW ok \in BOOLEAN,
           CancelJob(j, n, only, ok)
    PROVE  RegistryInv'
<1> DEFINE peers == IF only THEN {} ELSE Peers(j)
           failed == [intents EXCEPT ![j] = Marked(@, n, "failed")]
<1>1. /\ up /\ mem[j] # None /\ n \in DOMAIN intents[j] /\ intents[j][n].status = "recorded" /\ n \in Nat
      /\ UNCHANGED <<end, deferredSettlements, turn, told, up>>
      BY DEF CancelJob
<1>2. peers \in SUBSET (Jobs \ {j}) /\ \A p \in peers : Is(mem, p, ActiveStatus) BY DEF Peers
<1>3. RegistryTypeOK BY DEF RegistryInv
<1> HIDE DEF peers
<1>4. ASSUME NEW lost, mem[j].status \in ActiveStatus, MayStop(j, n, intents, peers),
             StopBegins(j, n, only, intents, peers, lost)
      PROVE  RegistryInv'
  <2>1. Extends(intents) BY <1>3 DEF Extends, RegistryTypeOK
  <2>2. \A p \in peers \cup {j} : Is(mem, p, ActiveStatus) BY <1>1, <1>2, <1>4 DEF Is
  <2>3. stop[j] = None /\ \A p \in peers \cup {j} : turn[p] = "running" BY <1>2, <1>4, <2>2, MayStopRunning
  <2> QED BY <1>1, <1>2, <1>4, <2>1, <2>2, <2>3, StopBeginsStep
<1>5. ASSUME mem[j].status \in ActiveStatus, MayStop(j, n, intents, peers), StopNeverBegins(j, n, failed)
      PROVE  RegistryInv'
  <2>1. Is(mem, j, ActiveStatus) BY <1>1, <1>5 DEF Is
  <2>2. turn[j] = "running" BY <1>2, <1>5, <2>1, MayStopRunning
  <2>3. intents' = [intents EXCEPT ![j] = Aged(Marked(@, n, "failed"))]
        BY <1>3, <1>5 DEF StopNeverBegins, RegistryTypeOK
  <2> HIDE DEF failed
  <2>4. QuietIntents /\ intents' \in [Jobs -> Seq(IntentRows)] BY <1>1, <1>3, <2>3, AnsweredIntents
  <2>5. mem' = [mem EXCEPT ![j] = Terminating(@, n)] /\ UNCHANGED <<row, stop>> BY <1>5 DEF StopNeverBegins
  <2> QED BY <1>1, <2>1, <2>2, <2>4, <2>5, NeverBeginsStep
<1>6. ASSUME NEW status \in {"no-op", "failed"}, intents' = [intents EXCEPT ![j] = Marked(@, n, status)],
             UNCHANGED <<mem, row, stop>>
      PROVE  RegistryInv'
  <2>1. QuietIntents /\ intents' \in [Jobs -> Seq(IntentRows)] BY <1>1, <1>3, <1>6, AnsweredIntents
  <2> QED BY <1>1, <1>6, <2>1, OnlyIntents
<1>7. \/ /\ mem[j].status \in ActiveStatus /\ MayStop(j, n, intents, peers)
         /\ \E lost \in SUBSET {j} : StopBegins(j, n, only, intents, peers, lost)
      \/ mem[j].status \in ActiveStatus /\ MayStop(j, n, intents, peers) /\ StopNeverBegins(j, n, failed)
      \/ intents' = [intents EXCEPT ![j] = Marked(@, n, "no-op")] /\ UNCHANGED <<mem, row, stop>>
      \/ intents' = [intents EXCEPT ![j] = Marked(@, n, "failed")] /\ UNCHANGED <<mem, row, stop>>
      BY DEF CancelJob, peers
<1> QED BY <1>4, <1>5, <1>6, <1>7

LEMMA RecordedList ==
    ASSUME RegistryTypeOK, NEW j \in Jobs, NEW list, list = [intents EXCEPT ![j] = Append(@, NewIntent)]
    PROVE  /\ Extends(list) /\ Len(list[j]) \in DOMAIN list[j] /\ Len(list[j]) \notin DOMAIN intents[j]
           /\ list[j][Len(list[j])].status = "recorded" /\ Len(list[j]) \in Nat
<1>1. intents[j] \in Seq(IntentRows) BY DEF RegistryTypeOK
<1>2. \A k \in Jobs : list[k] = IF k = j THEN Append(intents[j], NewIntent) ELSE intents[k]
      BY DEF RegistryTypeOK
<1>3. /\ Append(intents[j], NewIntent) \in Seq(IntentRows)
      /\ Len(Append(intents[j], NewIntent)) = Len(intents[j]) + 1
      /\ DOMAIN Append(intents[j], NewIntent) = DOMAIN intents[j] \cup {Len(intents[j]) + 1}
      /\ Len(intents[j]) + 1 \notin DOMAIN intents[j]
      /\ \A i \in DOMAIN intents[j] : Append(intents[j], NewIntent)[i] = intents[j][i]
      /\ Append(intents[j], NewIntent)[Len(intents[j]) + 1].status = "recorded"
      BY <1>1, AppendedList
<1>4. list \in [Jobs -> Seq(IntentRows)] BY <1>3 DEF RegistryTypeOK
<1>5. Extends(list)
  <2> SUFFICES ASSUME NEW k \in Jobs
               PROVE  /\ DOMAIN intents[k] \subseteq DOMAIN list[k]
                      /\ \A i \in DOMAIN list[k] :
                            list[k][i].status = IF i \in DOMAIN intents[k] THEN intents[k][i].status ELSE "recorded"
      BY <1>4 DEF Extends
  <2>1. CASE k = j BY <1>2, <1>3, <2>1
  <2>2. CASE k # j BY <1>2, <2>2
  <2> QED BY <2>1, <2>2
<1>6. list[j] = Append(intents[j], NewIntent) BY <1>2
<1>7. Len(intents[j]) \in Nat BY <1>1
<1> QED BY <1>3, <1>5, <1>6, <1>7

\* What a confirmed stop makes of a Job: an end that its row always accepts.
LEMMA StoppedJob ==
    ASSUME NEW j \in Jobs, NEW p \in Jobs, NEW n \in Nat, mem[p] \in JobRows, NEW old \in JobRows \cup {None}
    PROVE  /\ Stopped(p, j, n) \in JobRows /\ Stopped(p, j, n).status \in TerminalStatus
           /\ Stopped(p, j, n).origin \in StopOrigins /\ Stopped(p, j, n).dispatched = mem[p].dispatched
           /\ Upserted(old, Stopped(p, j, n)) \in JobRows
           /\ Upserted(old, Stopped(p, j, n)).status \in TerminalStatus
           /\ Upserted(old, Stopped(p, j, n)).intent = n
           /\ Upserted(old, Stopped(p, j, n)).origin =
                IF p = j THEN "explicit-cancellation" ELSE "assignment-containment"
<1> USE NoneIsNothing
<1> DEFINE c == Stopped(p, j, n)
           status == IF p = j THEN "cancelled" ELSE "interrupted"
           origin == IF p = j THEN "explicit-cancellation" ELSE "assignment-containment"
<1>1. /\ status \in TerminalStatus
      /\ origin \in StopOrigins /\ origin \in Origins \ {"app-server-interrupted"}
      /\ status = StatusOfOrigin[origin]
  <2>1. "explicit-cancellation" \in Origins /\ "assignment-containment" \in Origins BY DEF Origins
  <2>2. StatusOfOrigin["explicit-cancellation"] = "cancelled" BY <2>1, OriginsHaveEnds
  <2> QED BY <2>1, <2>2, OriginsHaveEnds DEF TerminalStatus, StopOrigins
<1>2. c = [mem[p] EXCEPT !.status = status, !.origin = origin, !.intent = n] BY DEF Stopped
<1> HIDE DEF status, origin
<1>3. /\ c \in JobRows /\ c.status = status /\ c.origin = origin /\ c.intent = n
      /\ c.dispatched = mem[p].dispatched
      BY <1>1, <1>2 DEF JobRows
<1> HIDE DEF c
<1>4. /\ Upserted(old, c) \in JobRows /\ Upserted(old, c).status = status
      /\ Upserted(old, c).origin = origin /\ Upserted(old, c).intent = n
      BY <1>1, <1>3, EndIsTaken
<1> QED BY <1>1, <1>3, <1>4 DEF c, origin

LEMMA ArchiveStopStep ==
    ASSUME RegistryInv, NEW j \in Jobs, NEW ok \in BOOLEAN, StopForProjectArchive(j, ok) PROVE RegistryInv'
<1> USE NoneIsNothing DEF RegistryInv
<1> DEFINE list == [intents EXCEPT ![j] = Append(@, NewIntent)]
           n == Len(list[j])
           peers == Peers(j)
<1>1. /\ up /\ Is(mem, j, ActiveStatus) /\ stop[j] = None
      /\ UNCHANGED <<end, deferredSettlements, turn, told, up>>
      /\ \/ /\ Undispatched(mem[j]) /\ mem' = [mem EXCEPT ![j] = Stopped(j, j, n)]
            /\ RecordChange({j}, {})
            /\ intents' = [intents EXCEPT ![j] = Marked(Aged(list[j]), n, "succeeded")] /\ UNCHANGED stop
         \/ MayStop(j, n, list, peers) /\ \E lost \in SUBSET {j} : StopBegins(j, n, FALSE, list, peers, lost)
         \/ MayStop(j, n, list, peers) /\ StopNeverBegins(j, n, list)
         \/ intents' = list /\ UNCHANGED <<mem, row, stop>>
      BY DEF StopForProjectArchive
<1>2. /\ Extends(list) /\ n \in DOMAIN list[j] /\ n \notin DOMAIN intents[j]
      /\ list[j][n].status = "recorded" /\ n \in Nat
      BY RecordedList
<1>3. /\ peers \in SUBSET (Jobs \ {j})
      /\ \A p \in peers \cup {j} : Is(mem, p, ActiveStatus)
      BY <1>1 DEF Peers
<1>4. intents' = list => QuietIntents /\ intents' \in [Jobs -> Seq(IntentRows)] BY RecordedIntents
<1>5. [list EXCEPT ![j] = Aged(@)] = [intents EXCEPT ![j] = Aged(Append(@, NewIntent))]
      BY DEF RegistryTypeOK
<1> HIDE DEF list, n, peers
<1>6. MayStop(j, n, list, peers) => turn[j] = "running" /\ \A p \in peers \cup {j} : turn[p] = "running"
      BY <1>3, MayStopRunning
<1>7. CASE MayStop(j, n, list, peers) /\ \E lost \in SUBSET {j} : StopBegins(j, n, FALSE, list, peers, lost)
      BY <1>1, <1>2, <1>3, <1>6, <1>7, StopBeginsStep
<1>8. CASE MayStop(j, n, list, peers) /\ StopNeverBegins(j, n, list)
  <2>1. intents' = [intents EXCEPT ![j] = Aged(Append(@, NewIntent))] BY <1>5, <1>8 DEF StopNeverBegins
  <2>2. QuietIntents /\ intents' \in [Jobs -> Seq(IntentRows)] BY <2>1, RecordedIntents
  <2>3. mem' = [mem EXCEPT ![j] = Terminating(@, n)] /\ UNCHANGED <<row, stop>> BY <1>8 DEF StopNeverBegins
  <2> QED BY <1>1, <1>2, <1>6, <1>8, <2>2, <2>3, NeverBeginsStep
<1>9. CASE intents' = list /\ UNCHANGED <<mem, row, stop>> BY <1>1, <1>4, <1>9, OnlyIntents
<1>10. CASE /\ Undispatched(mem[j]) /\ mem' = [mem EXCEPT ![j] = Stopped(j, j, n)]
            /\ RecordChange({j}, {})
            /\ intents' = [intents EXCEPT ![j] = Marked(Aged(list[j]), n, "succeeded")] /\ UNCHANGED stop
  <2>1. mem[j] \in JobRows /\ row[j] \in JobRows /\ mem[j].status \in ActiveStatus /\ ~mem[j].dispatched
        BY <1>1, <1>10 DEF JobInv, InMemory, RegistryTypeOK, Is, Undispatched
  <2>2. turn[j] # "running" BY <1>1, <2>1 DEF JobInv, RunningIsDispatched
  <2>3. mem'[j] = Stopped(j, j, n) /\ row' = [row EXCEPT ![j] = Upserted(row[j], mem'[j])]
        BY <1>10 DEF RegistryTypeOK, RecordChange
  <2>4. row'[j] = Upserted(row[j], Stopped(j, j, n)) BY <2>3 DEF RegistryTypeOK
  <2>5. /\ mem'[j] \in JobRows /\ mem'[j].status \in TerminalStatus
        /\ row'[j] \in JobRows /\ row'[j].status \in TerminalStatus /\ row'[j].intent = n
        BY <1>2, <2>1, <2>3, <2>4, StoppedJob
  <2>6. mem'[j].status \notin ActiveStatus /\ row'[j].status \notin ActiveStatus BY <2>5, ActiveOrTerminal
  <2>7. JobInv(j)' /\ Over(j)'
    <3>1. mem'[j] # None /\ row'[j] # None BY <2>5
    <3>2. InMemory(j)' /\ EndedOnRecord(j)' /\ ActiveIsOpen(j)' /\ RunningIsDispatched(j)' /\ Kept(j)'
          BY <1>1, <2>2, <2>5, <2>6, <3>1
          DEF InMemory, EndedOnRecord, ActiveIsOpen, RunningIsDispatched, Kept, Is
    <3>3. ToldIsOver(j)' BY <1>1 DEF JobInv, ToldIsOver
    <3>4. Over(j)' BY <1>1, <2>2, <2>5, <2>6, <3>1 DEF Over, Is
    <3> QED BY <3>2, <3>3, <3>4 DEF JobInv
  <2>8. /\ intents'[j] \in Seq(IntentRows) /\ DOMAIN intents'[j] = DOMAIN list[j]
        /\ \A i \in DOMAIN list[j] : intents'[j][i].status = IF i = n THEN "succeeded" ELSE list[j][i].status
    <3>1. list[j] \in Seq(IntentRows) /\ "succeeded" \in IntentStatus BY <1>2 DEF Extends, IntentStatus
    <3> DEFINE aged == Aged(list[j])
    <3>2. /\ aged \in Seq(IntentRows) /\ DOMAIN aged = DOMAIN list[j]
          /\ \A i \in DOMAIN list[j] : aged[i].status = list[j][i].status
          BY <3>1, AgedList
    <3>3. intents'[j] = Marked(aged, n, "succeeded") BY <1>10 DEF RegistryTypeOK
    <3> HIDE DEF aged
    <3>4. /\ Marked(aged, n, "succeeded") \in Seq(IntentRows) /\ DOMAIN Marked(aged, n, "succeeded") = DOMAIN aged
          /\ \A i \in DOMAIN aged :
                Marked(aged, n, "succeeded")[i].status = IF i = n THEN "succeeded" ELSE aged[i].status
          BY <1>2, <3>1, <3>2, MarkedList
    <3> QED BY <3>2, <3>3, <3>4
  <2>9. \A k \in Jobs \ {j} : intents'[k] = intents[k] BY <1>10 DEF RegistryTypeOK
  <2>10. RegistryTypeOK'
    <3>1. intents' = [intents EXCEPT ![j] = intents'[j]] /\ row' = [row EXCEPT ![j] = row'[j]]
          /\ mem' = [mem EXCEPT ![j] = mem'[j]]
          BY <1>10, <2>3, <2>4 DEF RegistryTypeOK
    <3> QED BY <1>1, <1>10, <2>5, <2>8, <3>1 DEF RegistryTypeOK
  <2>11. \A k \in Jobs \ {j} : JobState(k)' = JobState(k) BY <1>1, <1>10, <2>3 DEF JobState, RegistryTypeOK
  <2>12. \A k \in Jobs : JobInv(k)' BY <2>7, <2>11, JobFrame
  <2>13. /\ DOMAIN intents[j] \subseteq DOMAIN intents'[j]
         /\ \A i \in DOMAIN intents[j] : intents'[j][i].status = intents[j][i].status
         BY <1>2, <2>8 DEF Extends
  <2>14. DispatchedStay BY <2>9, <2>13 DEF DispatchedStay
  <2>15. \A k \in Jobs : mem[k] # None => mem'[k] # None BY <2>5, <2>11 DEF JobState
  <2>16. NamedAreOpen' /\ NamedOnce' BY <1>1, <1>10, <2>14, <2>15, QuietNames
  <2>17. Proven'
    <3>1. row'[j].intent \in DOMAIN intents'[j] /\ intents'[j][row'[j].intent].status = "succeeded"
          BY <1>2, <2>5, <2>8
    <3>2. ASSUME NEW k \in Jobs \ {j}
          PROVE  /\ \A i \in DOMAIN intents'[k] : intents'[k][i].status = "succeeded" => Over(k)'
                 /\ StopEnded(row', k) => /\ row'[k].intent \in DOMAIN intents'[k]
                                          /\ intents'[k][row'[k].intent].status = "succeeded"
      <4>1. intents'[k] = intents[k] /\ row'[k] = row[k] BY <2>9, <2>11 DEF JobState
      <4>2. RowGoesOn(k) BY <2>11, RowFrame
      <4> QED BY <4>1, <4>2 DEF Proven, RowGoesOn
    <3> QED BY <2>7, <3>1, <3>2 DEF Proven
  <2> QED BY <2>10, <2>12, <2>16, <2>17
<1> QED BY <1>1, <1>7, <1>8, <1>9, <1>10

--------------------------------------------------------------------------
(* A stop comes back *)

\* An answer leaves each turn as it was, or has ended it; a confirmed stop has
\* ended the turns of all the Jobs it affects.
LEMMA AnswersLeave ==
    ASSUME turn \in [Jobs -> Turns], NEW j \in Jobs, NEW a \in Answers(j), stop[j] # None,
           DOMAIN stop[j].peers \subseteq Jobs \ {j}
    PROVE  /\ a.left \in [Jobs -> Turns]
           /\ \A k \in Jobs : a.left[k] = turn[k] \/ (turn[k] = "running" /\ a.left[k] \in Outcomes)
           /\ Affected(j, a) \subseteq DOMAIN Names(stop[j], j)
           /\ Confirmed(a) => j \in Affected(j, a) /\ \A k \in Affected(j, a) : a.left[k] # "running"
           /\ ~Confirmed(a) => Affected(j, a) \subseteq {j}
           /\ a.kind # "unconfirmed" => j \in Affected(j, a)
<1>1. "running" \notin Outcomes /\ "interrupted" \in Outcomes /\ "lost" \in Outcomes BY DEF Outcomes
<1>2. DOMAIN Names(stop[j], j) = DOMAIN stop[j].peers \cup {j} BY DEF Names
<1>3. CASE a.left = turn /\ a.kind = "already-completed" BY <1>1, <1>2, <1>3 DEF Affected, Confirmed
<1>4. CASE a.left = turn /\ a.kind = "turn-interrupt" /\ turn[j] \in Outcomes
      BY <1>1, <1>2, <1>4 DEF Affected, Confirmed
<1>5. CASE a.left = [turn EXCEPT ![j] = "interrupted"] /\ a.kind = "turn-interrupt" /\ turn[j] = "running"
  <2>1. a.left \in [Jobs -> Turns] /\ a.left[j] = "interrupted" /\ \A k \in Jobs \ {j} : a.left[k] = turn[k]
        BY <1>5 DEF Turns, Outcomes
  <2> QED BY <1>1, <1>2, <1>5, <2>1 DEF Affected, Confirmed
<1>6. CASE a.left = Lost(turn) /\ a.kind = "process-group"
  <2>1. /\ a.left \in [Jobs -> Turns]
        /\ \A k \in Jobs : /\ a.left[k] # "running"
                           /\ a.left[k] = turn[k] \/ (turn[k] = "running" /\ a.left[k] = "lost")
        BY <1>6, LostTurns
  <2>2. Affected(j, a) = DOMAIN Names(stop[j], j) BY <1>6 DEF Affected
  <2> QED BY <1>1, <1>2, <1>6, <2>1, <2>2 DEF Confirmed
<1>7. CASE a.left = turn /\ a.kind = "unconfirmed" BY <1>1, <1>7 DEF Affected, Confirmed
<1>8. \/ a.left = turn /\ a.kind \in {"already-completed", "turn-interrupt"} /\ turn[j] \in Outcomes
      \/ a.left = [turn EXCEPT ![j] = "interrupted"] /\ a.kind = "turn-interrupt" /\ turn[j] = "running"
      \/ a.left = Lost(turn) /\ a.kind = "process-group"
      \/ a.left = turn /\ a.kind = "unconfirmed"
  <2> DEFINE over == {[kind |-> "already-completed", left |-> turn], [kind |-> "turn-interrupt", left |-> turn]}
             now == {[kind |-> "turn-interrupt", left |-> [turn EXCEPT ![j] = "interrupted"]]}
             all == {[kind |-> "process-group", left |-> Lost(turn)]}
             no == {[kind |-> "unconfirmed", left |-> turn]}
  <2>1. /\ a \in over \cup now \cup all \cup no
        /\ turn[j] \notin Outcomes => a \in now \cup all \cup no
        /\ turn[j] # "running" => a \in over \cup all \cup no
    <3> DEFINE ended == IF turn[j] \in Outcomes THEN over ELSE {}
               goes == IF turn[j] = "running" THEN now ELSE {}
               group == IF stop[j].only THEN {} ELSE all
    <3>1. a \in ended \cup goes \cup group \cup no BY DEF Answers
    <3>2. /\ ended \subseteq over /\ (turn[j] \notin Outcomes => ended = {})
          /\ goes \subseteq now /\ (turn[j] # "running" => goes = {}) /\ group \subseteq all
      <4> HIDE DEF over, now, all, no
      <4> QED OBVIOUS
    <3> HIDE DEF over, now, all, no, ended, goes, group
    <3> QED BY <3>1, <3>2
  <2>2. ~(turn[j] \in Outcomes /\ turn[j] = "running") BY <1>1
  <2>3. CASE a \in over /\ turn[j] \in Outcomes BY <2>3
  <2>4. CASE a \in now /\ turn[j] = "running" BY <2>4
  <2>5. CASE a \in all \cup no BY <2>5
  <2> HIDE DEF over, now, all, no
  <2>6. a \notin all \cup no => (a \in over /\ turn[j] \in Outcomes) \/ (a \in now /\ turn[j] = "running")
    <3>1. CASE turn[j] \in Outcomes BY <2>1, <2>2, <3>1
    <3>2. CASE turn[j] \notin Outcomes /\ turn[j] = "running" BY <2>1, <3>2
    <3>3. CASE turn[j] \notin Outcomes /\ turn[j] # "running"
      <4>1. a \in now \cup all \cup no /\ a \in over \cup all \cup no BY <2>1, <3>3
      <4>2. a \in over => a.left[j] = turn[j] BY DEF over
      <4>3. a \in now => a.left[j] = "interrupted" BY DEF now
      <4>4. a.left[j] = "interrupted" => a.left[j] \in Outcomes BY <1>1
      <4> QED BY <3>3, <4>1, <4>2, <4>3, <4>4
    <3> QED BY <3>1, <3>2, <3>3
  <2> QED BY <2>3, <2>4, <2>5, <2>6
<1> QED BY <1>3, <1>4, <1>5, <1>6, <1>7, <1>8

\* Only the intents that the stop of j had named are answered.
OnlyNamed(j) == \A p \in Jobs :
    /\ DOMAIN intents'[p] = DOMAIN intents[p]
    /\ \A n \in DOMAIN intents[p] :
          \/ intents'[p][n].status = intents[p][n].status
          \/ p \in DOMAIN Names(stop[j], j) /\ n = Names(stop[j], j)[p]

LEMMA StopNames ==
    ASSUME RegistryInv, NEW j \in Jobs, stop[j] # None
    PROVE  /\ stop[j] \in StopRows /\ stop[j].intent \in Nat /\ DOMAIN stop[j].peers \subseteq Jobs \ {j}
           /\ j \in DOMAIN Names(stop[j], j) /\ DOMAIN Names(stop[j], j) \subseteq Jobs
           /\ Names(stop[j], j)[j] = stop[j].intent
           /\ \A p \in DOMAIN Names(stop[j], j) :
                 /\ Names(stop[j], j)[p] \in Nat /\ mem[p] # None /\ turn[p] # "none"
                 /\ Names(stop[j], j)[p] \in DOMAIN intents[p]
                 /\ intents[p][Names(stop[j], j)[p]].status = "dispatched"
<1> USE NoneIsNothing DEF RegistryInv
<1>1. stop[j] \in StopRows BY DEF RegistryTypeOK
<1>2. stop[j].intent \in Nat /\ \A p \in DOMAIN stop[j].peers : stop[j].peers[p] \in Nat BY <1>1 DEF StopRows
<1>3. DOMAIN stop[j].peers \subseteq Jobs \ {j} BY DEF NamedAreOpen
<1>4. /\ DOMAIN Names(stop[j], j) = DOMAIN stop[j].peers \cup {j}
      /\ \A p \in DOMAIN Names(stop[j], j) :
            Names(stop[j], j)[p] = IF p = j THEN stop[j].intent ELSE stop[j].peers[p]
      BY DEF Names
<1>5. \A p \in DOMAIN Names(stop[j], j) :
         /\ mem[p] # None /\ turn[p] # "none" /\ Names(stop[j], j)[p] \in DOMAIN intents[p]
         /\ intents[p][Names(stop[j], j)[p]].status = "dispatched"
      BY DEF NamedAreOpen
<1> QED BY <1>1, <1>2, <1>3, <1>4, <1>5

\* The stops that are still under way have named other intents.
LEMMA NamesAfter ==
    ASSUME RegistryInv, NEW j \in Jobs, stop[j] # None, stop' = [stop EXCEPT ![j] = None], OnlyNamed(j),
           \A k \in Jobs : mem[k] # None => mem'[k] # None,
           \A k \in Jobs : turn'[k] = "none" => turn[k] = "none"
    PROVE  NamedAreOpen' /\ NamedOnce'
<1> USE NoneIsNothing DEF RegistryInv
<1>1. stop'[j] = None /\ \A k \in Jobs \ {j} : stop'[k] = stop[k] BY DEF RegistryTypeOK
<1>2. NamedAreOpen'
  <2> SUFFICES ASSUME NEW k \in Jobs, stop'[k] # None
               PROVE  /\ DOMAIN stop'[k].peers \subseteq Jobs \ {k}
                      /\ \A p \in DOMAIN Names(stop'[k], k) :
                            /\ mem'[p] # None /\ turn'[p] # "none"
                            /\ Names(stop'[k], k)[p] \in DOMAIN intents'[p]
                            /\ intents'[p][Names(stop'[k], k)[p]].status = "dispatched"
      BY DEF NamedAreOpen, Names
  <2>1. k # j /\ stop'[k] = stop[k] BY <1>1
  <2>2. /\ DOMAIN stop[k].peers \subseteq Jobs \ {k} /\ DOMAIN Names(stop[k], k) \subseteq Jobs
        /\ \A p \in DOMAIN Names(stop[k], k) :
              /\ mem[p] # None /\ turn[p] # "none" /\ Names(stop[k], k)[p] \in DOMAIN intents[p]
              /\ intents[p][Names(stop[k], k)[p]].status = "dispatched"
        BY <2>1, StopNames
  <2>3. ASSUME NEW p \in DOMAIN Names(stop[k], k), p \in DOMAIN Names(stop[j], j)
        PROVE  Names(stop[k], k)[p] # Names(stop[j], j)[p]
        BY <2>1, <2>3 DEF NamedOnce
  <2> QED BY <2>1, <2>2, <2>3 DEF OnlyNamed
<1>3. NamedOnce'
  <2> SUFFICES ASSUME NEW i \in Jobs, NEW k \in Jobs, stop'[i] # None, stop'[k] # None, i # k
               PROVE  \A p \in DOMAIN Names(stop'[i], i) \cap DOMAIN Names(stop'[k], k) :
                         Names(stop'[i], i)[p] # Names(stop'[k], k)[p]
      BY Zenon DEF NamedOnce
  <2>1. i # j /\ k # j /\ stop'[i] = stop[i] /\ stop'[k] = stop[k] BY <1>1
  <2> QED BY <2>1 DEF NamedOnce
<1> QED BY <1>2, <1>3

\* An answer that is no success proves nothing new.
LEMMA NothingSucceeds ==
    ASSUME RegistryInv, NEW j \in Jobs, stop[j] # None, OnlyNamed(j),
           \A p \in DOMAIN Names(stop[j], j) : intents'[p][Names(stop[j], j)[p]].status # "succeeded"
    PROVE  SucceededStay
<1>1. \A p \in DOMAIN Names(stop[j], j) : intents[p][Names(stop[j], j)[p]].status = "dispatched" BY StopNames
<1> QED BY <1>1 DEF OnlyNamed, SucceededStay

LEMMA MarkedAgain ==
    ASSUME NEW list \in Seq(IntentRows), NEW n \in DOMAIN list, NEW status \in IntentStatus
    PROVE  /\ Marked(Aged(list), n, status) \in Seq(IntentRows) /\ DOMAIN Marked(Aged(list), n, status) = DOMAIN list
           /\ \A i \in DOMAIN list :
                 Marked(Aged(list), n, status)[i].status = IF i = n THEN status ELSE list[i].status
<1> DEFINE new == Aged(list)
<1>1. new \in Seq(IntentRows) /\ DOMAIN new = DOMAIN list /\ \A i \in DOMAIN list : new[i].status = list[i].status
      BY AgedList
<1> HIDE DEF new
<1>2. /\ Marked(new, n, status) \in Seq(IntentRows) /\ DOMAIN Marked(new, n, status) = DOMAIN new
      /\ \A i \in DOMAIN new : Marked(new, n, status)[i].status = IF i = n THEN status ELSE new[i].status
      BY <1>1, MarkedList
<1> QED BY <1>1, <1>2 DEF new

\* The tables of intents that an answer writes.
LEMMA NamedIntents ==
    ASSUME RegistryInv, NEW j \in Jobs, stop[j] # None, NEW status \in [Jobs -> IntentStatus],
           intents' = [p \in Jobs |-> intents'[p]],
           \A p \in Jobs :
              \/ intents'[p] \in {intents[p], Aged(intents[p])}
              \/ /\ p \in DOMAIN Names(stop[j], j)
                 /\ intents'[p] \in {Marked(intents[p], Names(stop[j], j)[p], status[p]),
                                     Marked(Aged(intents[p]), Names(stop[j], j)[p], status[p])}
    PROVE  /\ intents' \in [Jobs -> Seq(IntentRows)] /\ OnlyNamed(j)
           /\ \A p \in DOMAIN Names(stop[j], j) :
                 intents'[p][Names(stop[j], j)[p]].status \in {"dispatched", status[p]}
<1>1. intents \in [Jobs -> Seq(IntentRows)] BY DEF RegistryInv, RegistryTypeOK
<1>2. ASSUME NEW p \in Jobs
      PROVE  /\ intents'[p] \in Seq(IntentRows) /\ DOMAIN intents'[p] = DOMAIN intents[p]
             /\ \/ \A i \in DOMAIN intents[p] : intents'[p][i].status = intents[p][i].status
                \/ /\ p \in DOMAIN Names(stop[j], j) /\ Names(stop[j], j)[p] \in DOMAIN intents[p]
                   /\ \A i \in DOMAIN intents[p] : intents'[p][i].status =
                         IF i = Names(stop[j], j)[p] THEN status[p] ELSE intents[p][i].status
  <2> DEFINE old == intents[p]
             n == Names(stop[j], j)[p]
             st == status[p]
  <2>1. old \in Seq(IntentRows) BY <1>1
  <2>2. CASE intents'[p] \in {old, Aged(old)}
    <3> HIDE DEF old
    <3>1. /\ Aged(old) \in Seq(IntentRows) /\ DOMAIN Aged(old) = DOMAIN old
          /\ \A i \in DOMAIN old : Aged(old)[i].status = old[i].status
          BY <2>1, AgedList
    <3>2. /\ intents'[p] \in Seq(IntentRows) /\ DOMAIN intents'[p] = DOMAIN old
          /\ \A i \in DOMAIN old : intents'[p][i].status = old[i].status
          BY <2>1, <2>2, <3>1
    <3> QED BY <3>2 DEF old
  <2>3. CASE /\ p \in DOMAIN Names(stop[j], j)
             /\ intents'[p] = Marked(old, n, st) \/ intents'[p] = Marked(Aged(old), n, st)
    <3>1. n \in DOMAIN old /\ st \in IntentStatus BY <2>3, StopNames
    <3> HIDE DEF old, n, st
    <3>2. /\ Marked(old, n, st) \in Seq(IntentRows) /\ DOMAIN Marked(old, n, st) = DOMAIN old
          /\ \A i \in DOMAIN old : Marked(old, n, st)[i].status = IF i = n THEN st ELSE old[i].status
          BY <2>1, <3>1, MarkedList
    <3>3. /\ Marked(Aged(old), n, st) \in Seq(IntentRows) /\ DOMAIN Marked(Aged(old), n, st) = DOMAIN old
          /\ \A i \in DOMAIN old : Marked(Aged(old), n, st)[i].status = IF i = n THEN st ELSE old[i].status
          BY <2>1, <3>1, MarkedAgain
    <3>4. /\ intents'[p] \in Seq(IntentRows) /\ DOMAIN intents'[p] = DOMAIN old
          /\ \A i \in DOMAIN old : intents'[p][i].status = IF i = n THEN st ELSE old[i].status
          BY <2>3, <3>2, <3>3
    <3> QED BY <2>3, <3>1, <3>4 DEF old, n, st
  <2> QED BY <2>2, <2>3
<1>3. intents' \in [Jobs -> Seq(IntentRows)] BY <1>2
<1>4. OnlyNamed(j)
  <2> SUFFICES ASSUME NEW p \in Jobs
               PROVE  /\ DOMAIN intents'[p] = DOMAIN intents[p]
                      /\ \A n \in DOMAIN intents[p] :
                            \/ intents'[p][n].status = intents[p][n].status
                            \/ p \in DOMAIN Names(stop[j], j) /\ n = Names(stop[j], j)[p]
      BY DEF OnlyNamed
  <2> QED BY <1>2
<1>5. \A p \in DOMAIN Names(stop[j], j) :
         intents'[p][Names(stop[j], j)[p]].status \in {"dispatched", status[p]}
  <2> SUFFICES ASSUME NEW p \in DOMAIN Names(stop[j], j)
               PROVE  intents'[p][Names(stop[j], j)[p]].status \in {"dispatched", status[p]}
      OBVIOUS
  <2>1. /\ p \in Jobs /\ Names(stop[j], j)[p] \in DOMAIN intents[p]
        /\ intents[p][Names(stop[j], j)[p]].status = "dispatched"
        BY StopNames
  <2> QED BY <1>2, <2>1
<1> QED BY <1>3, <1>4, <1>5

\* A stop that did not end its Job gives the Job back to its own outcome.
LEMMA BackJob ==
    ASSUME RegistryInv, NEW j \in Jobs, up, stop[j] # None, NEW c \in JobRows, c.status \in ActiveStatus,
           c.origin = mem[j].origin, c.dispatched = mem[j].dispatched, mem'[j] = c,
           row'[j] \in {row[j], Upserted(row[j], c)}, TurnGoesOn(j),
           end[j] # None => end'[j] # None,
           deferredSettlements[j] # None => end'[j] # None \/ deferredSettlements'[j] # None,
           end'[j] # None \/ deferredSettlements'[j] # None => end[j] # None \/ deferredSettlements[j] # None,
           UNCHANGED <<told, up>>
    PROVE  row'[j] \in JobRows /\ RowGoesOn(j) /\ JobInv(j)'
<1>1. mem[j] # None BY StopNames
<1>2. end'[j] # None \/ deferredSettlements'[j] # None => told'[j] BY DEF RegistryInv, JobInv, ToldIsOver
<1> QED BY <1>1, <1>2, ActiveChanges DEF TurnGoesOn

\* A confirmed stop ends its target, and the Jobs its worker took along: in memory,
\* and on record where the row is written.
LEMMA HitJob ==
    ASSUME RegistryInv, NEW p \in Jobs, up, mem[p] # None, NEW c \in JobRows, c.origin \in StopOrigins,
           mem'[p] = c, row'[p] \in JobRows, row'[p] = row[p] \/ row'[p].status \in TerminalStatus,
           turn'[p] \notin {"none", "running"},
           end'[p] # None \/ deferredSettlements'[p] # None => end[p] # None \/ deferredSettlements[p] # None,
           UNCHANGED <<told, up>>
    PROVE  JobInv(p)' /\ Over(p)'
<1> USE NoneIsNothing DEF RegistryInv
<1>1. mem'[p] # None /\ row'[p] # None /\ StopEnded(mem', p) BY DEF StopEnded
<1>2. InMemory(p)' /\ EndedOnRecord(p)' /\ Kept(p)' BY <1>1 DEF InMemory, EndedOnRecord, Kept
<1>3. ActiveIsOpen(p)'
  <2>1. row'[p].status \in ActiveStatus => row'[p].origin = None
    <3>1. CASE row'[p] = row[p] BY <1>1, <3>1 DEF JobInv, ActiveIsOpen, Is
    <3>2. CASE row'[p].status \in TerminalStatus BY <3>2, ActiveOrTerminal
    <3> QED BY <3>1, <3>2
  <2> QED BY <2>1 DEF ActiveIsOpen, Is
<1>4. RunningIsDispatched(p)' /\ Over(p)' BY DEF RunningIsDispatched, Over
<1>5. ToldIsOver(p)' BY DEF JobInv, ToldIsOver
<1> QED BY <1>2, <1>3, <1>4, <1>5 DEF JobInv

\* What an answer makes of a Job it affects.
LEMMA AnsweredJob ==
    ASSUME RegistryInv, NEW j \in Jobs, stop[j] # None, NEW a \in Answers(j), NEW p \in Affected(j, a)
    PROVE  /\ p \in Jobs /\ mem[p] \in JobRows /\ row[p] \in JobRows
           /\ AnswerGives(j, a, p) \in JobRows /\ AnswerGives(j, a, p).dispatched = mem[p].dispatched
           /\ ~Confirmed(a) => /\ p = j /\ AnswerGives(j, a, p).status \in ActiveStatus
                               /\ AnswerGives(j, a, p).origin = mem[p].origin
           /\ Confirmed(a) => /\ AnswerGives(j, a, p) = Stopped(p, j, Names(stop[j], j)[p])
                              /\ AnswerGives(j, a, p).origin \in StopOrigins
                              /\ Upserted(row[p], AnswerGives(j, a, p)) \in JobRows
                              /\ Upserted(row[p], AnswerGives(j, a, p)).status \in TerminalStatus
                              /\ Upserted(row[p], AnswerGives(j, a, p)).intent = Names(stop[j], j)[p]
                              /\ a.left[p] \notin {"none", "running"}
<1> USE NoneIsNothing DEF RegistryInv
<1>1. DOMAIN stop[j].peers \subseteq Jobs \ {j} BY StopNames
<1>2. /\ p \in DOMAIN Names(stop[j], j)
      /\ ~Confirmed(a) => p = j
      /\ Confirmed(a) => a.left[p] # "running"
      /\ \A k \in Jobs : a.left[k] = turn[k] \/ (turn[k] = "running" /\ a.left[k] \in Outcomes)
      BY <1>1, AnswersLeave DEF RegistryTypeOK
<1>3. p \in Jobs /\ mem[p] # None /\ turn[p] # "none" /\ Names(stop[j], j)[p] \in Nat BY <1>2, StopNames
<1>4. mem[p] \in JobRows /\ row[p] \in JobRows BY <1>3 DEF JobInv, InMemory, RegistryTypeOK
<1>5. CASE ~Confirmed(a)
  <2>1. AnswerGives(j, a, p) = [mem[p] EXCEPT !.status = "running", !.intent = None] BY <1>5 DEF AnswerGives
  <2>2. "running" \in ActiveStatus BY DEF ActiveStatus, Live
  <2> QED BY <1>2, <1>3, <1>4, <1>5, <2>1, <2>2 DEF JobRows
<1>6. CASE Confirmed(a)
  <2> DEFINE n == Names(stop[j], j)[p]
  <2>1. AnswerGives(j, a, p) = Stopped(p, j, n) BY <1>6 DEF AnswerGives
  <2> HIDE DEF n
  <2>2. /\ Stopped(p, j, n) \in JobRows
        /\ Stopped(p, j, n).origin \in StopOrigins /\ Stopped(p, j, n).dispatched = mem[p].dispatched
        /\ Upserted(row[p], Stopped(p, j, n)) \in JobRows
        /\ Upserted(row[p], Stopped(p, j, n)).status \in TerminalStatus
        /\ Upserted(row[p], Stopped(p, j, n)).intent = n
        BY <1>3, <1>4, StoppedJob DEF n
  <2>3. a.left[p] \notin {"none", "running"} BY <1>2, <1>3, <1>6 DEF Outcomes
  <2> QED BY <1>3, <1>4, <1>6, <2>1, <2>2, <2>3 DEF n
<1> QED BY <1>5, <1>6

\* The turns that an answer leaves, and what an acknowledgement leaves of them.
LEMMA LeftTurns ==
    ASSUME RegistryInv, NEW j \in Jobs, stop[j] # None, NEW a \in Answers(j)
    PROVE  /\ a.left \in [Jobs -> Turns]
           /\ \A p \in Jobs : a.left[p] = "running" => turn[p] = "running"
           /\ \A p \in Jobs : a.left[p] = "none" => turn[p] = "none"
           /\ \A p \in Jobs : a.left[p] = "released" => turn[p] = "released"
           /\ Confirmed(a) => \A p \in Affected(j, a) : a.left[p] \notin {"none", "running"}
<1>1. /\ a.left \in [Jobs -> Turns]
      /\ \A k \in Jobs : a.left[k] = turn[k] \/ (turn[k] = "running" /\ a.left[k] \in Outcomes)
  <2>1. DOMAIN stop[j].peers \subseteq Jobs \ {j} BY StopNames
  <2>2. turn \in [Jobs -> Turns] BY DEF RegistryInv, RegistryTypeOK
  <2> QED BY <2>1, <2>2, AnswersLeave
<1>2. Confirmed(a) => \A p \in Affected(j, a) : a.left[p] \notin {"none", "running"} BY AnsweredJob
<1>3. "running" \notin Outcomes /\ "none" \notin Outcomes /\ "released" \notin Outcomes BY DEF Outcomes
<1> QED BY <1>1, <1>2, <1>3

LEMMA AcknowledgedLeft ==
    ASSUME RegistryInv, NEW j \in Jobs, stop[j] # None, NEW a \in Answers(j),
           turn' = Acknowledged(a.left, mem', Affected(j, a))
    PROVE  /\ turn' \in [Jobs -> Turns]
           /\ \A p \in Jobs : turn'[p] = "running" => turn[p] = "running"
           /\ \A p \in Jobs : turn'[p] = "none" => turn[p] = "none"
           /\ \A p \in Jobs : turn'[p] = "released" =>
                 turn[p] = "released" \/ (p \in Affected(j, a) /\ Is(mem', p, TerminalStatus))
           /\ Confirmed(a) => \A p \in Affected(j, a) : turn'[p] \notin {"none", "running"}
<1> DEFINE left == a.left
           hit == Affected(j, a)
           t == turn'
           m == mem'
<1>1. /\ left \in [Jobs -> Turns]
      /\ \A p \in Jobs : left[p] = "running" => turn[p] = "running"
      /\ \A p \in Jobs : left[p] = "none" => turn[p] = "none"
      /\ \A p \in Jobs : left[p] = "released" => turn[p] = "released"
      /\ Confirmed(a) => \A p \in hit : p \in Jobs /\ left[p] \notin {"none", "running"}
      BY LeftTurns, AnsweredJob
<1>2. t = Acknowledged(left, m, hit) OBVIOUS
<1> HIDE DEF left, hit, t, m
<1>3. /\ t \in [Jobs -> Turns]
      /\ \A k \in Jobs : t[k] = "running" <=> left[k] = "running"
      /\ \A k \in Jobs : t[k] = "none" <=> left[k] = "none"
      /\ \A k \in Jobs : t[k] = left[k] \/ Is(m, k, TerminalStatus)
      /\ \A k \in Jobs \ hit : t[k] = left[k]
      BY <1>1, <1>2, AcknowledgedTurns
<1> QED BY <1>1, <1>3 DEF hit, t, m

\* The Jobs and the intents of a stop that has come back.
LEMMA StopIsOver ==
    ASSUME RegistryInv, RegistryTypeOK', NEW j \in Jobs, stop[j] # None, stop' = [stop EXCEPT ![j] = None],
           OnlyNamed(j), \A p \in Jobs : JobInv(p)', \A p \in Jobs : mem[p] # None => mem'[p] # None,
           \A p \in Jobs : turn'[p] = "none" => turn[p] = "none", Proven'
    PROVE  RegistryInv'
<1>1. NamedAreOpen' /\ NamedOnce' BY NamesAfter
<1> QED BY <1>1 DEF RegistryInv

LEMMA FlushedOutcome ==
    ASSUME RegistryTypeOK, NEW j \in Jobs, NEW left \in [Jobs -> Outcomes \cup {None}], Flushed(j, left)
    PROVE  /\ end' \in [Jobs -> Outcomes \cup {None}] /\ deferredSettlements' \in [Jobs -> Outcomes \cup {None}]
           /\ \A k \in Jobs \ {j} : end'[k] = end[k] /\ deferredSettlements'[k] = left[k]
           /\ deferredSettlements'[j] = None
           /\ end'[j] = IF left[j] = None THEN end[j] ELSE left[j]
BY NoneIsNothing DEF RegistryTypeOK, Flushed, Coalesce

LEMMA SucceedsStep ==
    ASSUME RegistryInv, NEW j \in Jobs, up, stop[j] # None, NEW a \in Answers(j), Confirmed(a),
           NEW lost, StopReturns(j, a, lost), UNCHANGED <<told, up>>
    PROVE  RegistryInv'
<1> DEFINE names == Names(stop[j], j)
           hit == Affected(j, a)
           status == [p \in Jobs |-> IF p \in hit THEN "succeeded" ELSE "no-op"]
<1>1. /\ mem' = [p \in Jobs |-> IF p \in hit THEN AnswerGives(j, a, p) ELSE mem[p]]
      /\ row' = [p \in Jobs |-> IF p \in hit \ lost THEN Upserted(row[p], mem'[p]) ELSE row[p]]
      /\ stop' = [stop EXCEPT ![j] = None]
      /\ deferredSettlements' = [p \in Jobs |-> IF p \in hit THEN None ELSE deferredSettlements[p]]
      /\ turn' = Acknowledged(a.left, mem', hit) /\ UNCHANGED end
      BY DEF StopReturns, Answered, RecordChange, Undeferred
<1>2. /\ intents' = [p \in Jobs |-> intents'[p]]
      /\ \A p \in Jobs : intents'[p] =
            CASE p \in hit -> Marked(Aged(intents[p]), names[p], "succeeded")
              [] p \in DOMAIN names \ hit -> Marked(intents[p], names[p], "no-op")
              [] OTHER -> intents[p]
      BY DEF StopReturns, AgedOf
<1>4. /\ turn' \in [Jobs -> Turns]
      /\ \A p \in Jobs : turn'[p] = "running" => turn[p] = "running"
      /\ \A p \in Jobs : turn'[p] = "none" => turn[p] = "none"
      /\ \A p \in Jobs \ hit : turn'[p] = "released" => turn[p] = "released"
      /\ \A p \in hit : turn'[p] \notin {"none", "running"}
      BY <1>1, AcknowledgedLeft
<1> USE NoneIsNothing DEF RegistryInv
<1>3. /\ hit \subseteq DOMAIN names /\ hit \subseteq Jobs /\ DOMAIN names \subseteq Jobs
      /\ \A p \in DOMAIN names :
            /\ names[p] \in Nat /\ mem[p] # None /\ names[p] \in DOMAIN intents[p]
            /\ intents[p][names[p]].status = "dispatched"
  <2>1. DOMAIN stop[j].peers \subseteq Jobs \ {j} BY StopNames
  <2>2. hit \subseteq DOMAIN names BY <2>1, AnswersLeave DEF RegistryTypeOK
  <2> HIDE DEF hit
  <2> QED BY <2>2, StopNames
<1> HIDE DEF names, hit, status
<1>5. ASSUME NEW p \in hit
      PROVE  /\ p \in Jobs /\ mem'[p] \in JobRows /\ mem'[p].origin \in StopOrigins
             /\ row'[p] \in JobRows
             /\ row'[p] = row[p] \/ (row'[p].status \in TerminalStatus /\ row'[p].intent = names[p])
  <2>1. /\ AnswerGives(j, a, p) \in JobRows /\ AnswerGives(j, a, p).origin \in StopOrigins
        /\ Upserted(row[p], AnswerGives(j, a, p)) \in JobRows /\ row[p] \in JobRows
        /\ Upserted(row[p], AnswerGives(j, a, p)).status \in TerminalStatus
        /\ Upserted(row[p], AnswerGives(j, a, p)).intent = names[p]
        BY AnsweredJob DEF hit, names
  <2>2. p \in Jobs /\ mem'[p] = AnswerGives(j, a, p) /\ row'[p] \in {row[p], Upserted(row[p], mem'[p])}
        BY <1>1, <1>3
  <2> QED BY <2>1, <2>2
<1>6. ASSUME NEW p \in hit PROVE JobInv(p)' /\ Over(p)'
  <2>1. mem[p] # None BY <1>3
  <2>2. end'[p] # None \/ deferredSettlements'[p] # None => end[p] # None \/ deferredSettlements[p] # None
        BY <1>1, <1>5
  <2> QED BY <1>4, <1>5, <2>1, <2>2, HitJob
<1>7. ASSUME NEW p \in Jobs \ hit PROVE mem'[p] = mem[p] /\ row'[p] = row[p] /\ JobInv(p)' /\ RowGoesOn(p)
  <2>1. JobRest(p)' = JobRest(p) BY <1>1 DEF JobRest
  <2>2. mem'[p] = mem[p] /\ row'[p] = row[p] BY <2>1 DEF JobRest
  <2>3. TurnGoesOn(p) /\ stop'[p] \in {stop[p], None} BY <1>1, <1>4 DEF TurnGoesOn, RegistryTypeOK
  <2>4. JobInv(p)' BY <2>1, <2>3, JobRests
  <2>5. RowGoesOn(p) BY <2>2, <2>3 DEF RowGoesOn, Over, TurnGoesOn, StopEnded, Is
  <2> QED BY <2>2, <2>4, <2>5
<1>8. /\ intents' \in [Jobs -> Seq(IntentRows)] /\ OnlyNamed(j)
      /\ \A p \in DOMAIN names : intents'[p][names[p]].status \in {"dispatched", status[p]}
  <2>1. status \in [Jobs -> IntentStatus] BY DEF IntentStatus, status
  <2>2. \A p \in Jobs : \/ intents'[p] \in {intents[p], Aged(intents[p])}
                        \/ /\ p \in DOMAIN names
                           /\ intents'[p] \in {Marked(intents[p], names[p], status[p]),
                                               Marked(Aged(intents[p]), names[p], status[p])}
        BY <1>2, <1>3 DEF status
  <2> QED BY <1>2, <2>1, <2>2, NamedIntents DEF names
<1>9. ASSUME NEW p \in hit PROVE intents'[p][names[p]].status = "succeeded"
  <2> DEFINE old == intents[p]
             n == names[p]
  <2>1. old \in Seq(IntentRows) /\ n \in DOMAIN old /\ "succeeded" \in IntentStatus
        BY <1>3 DEF RegistryTypeOK, IntentStatus
  <2>2. intents'[p] = Marked(Aged(old), n, "succeeded") BY <1>2, <1>3
  <2> HIDE DEF old, n
  <2>3. Marked(Aged(old), n, "succeeded")[n].status = "succeeded" BY <2>1, MarkedAgain
  <2> QED BY <2>2, <2>3 DEF n
<1>10. RegistryTypeOK'
  <2>1. \A p \in Jobs : mem'[p] \in JobRows \cup {None} /\ row'[p] \in JobRows \cup {None}
        BY <1>5, <1>7 DEF RegistryTypeOK
  <2>2. mem' \in [Jobs -> JobRows \cup {None}] /\ row' \in [Jobs -> JobRows \cup {None}] BY <1>1, <2>1
  <2>3. /\ stop' \in [Jobs -> StopRows \cup {None}] /\ end' \in [Jobs -> Outcomes \cup {None}]
        /\ deferredSettlements' \in [Jobs -> Outcomes \cup {None}]
        BY <1>1 DEF RegistryTypeOK
  <2> QED BY <1>4, <1>8, <2>2, <2>3 DEF RegistryTypeOK
<1>11. \A p \in Jobs : JobInv(p)' /\ (mem[p] # None => mem'[p] # None) BY <1>5, <1>6, <1>7
<1>12. Proven'
  <2>1. ASSUME NEW p \in hit, StopEnded(row', p)
        PROVE  row'[p].intent \in DOMAIN intents'[p] /\ intents'[p][row'[p].intent].status = "succeeded"
    <3>1. DOMAIN intents'[p] = DOMAIN intents[p] /\ p \in Jobs BY <1>5, <1>8 DEF OnlyNamed
    <3>2. CASE row'[p].intent = names[p] BY <1>3, <1>9, <3>1, <3>2
    <3>3. CASE row'[p] = row[p]
      <4>1. row[p].intent \in DOMAIN intents[p] /\ intents[p][row[p].intent].status = "succeeded"
            BY <2>1, <3>1, <3>3 DEF Proven, StopEnded
      <4>2. row[p].intent # names[p] BY <1>3, <4>1
      <4> QED BY <1>8, <3>1, <3>3, <4>1, <4>2 DEF OnlyNamed, names
    <3> QED BY <1>5, <3>2, <3>3
  <2>2. ASSUME NEW p \in Jobs \ hit
        PROVE  /\ \A i \in DOMAIN intents'[p] : intents'[p][i].status = "succeeded" => Over(p)'
               /\ StopEnded(row', p) => /\ row'[p].intent \in DOMAIN intents'[p]
                                        /\ intents'[p][row'[p].intent].status = "succeeded"
    <3>1. DOMAIN intents'[p] = DOMAIN intents[p] BY <1>8 DEF OnlyNamed
    <3>2. ASSUME NEW i \in DOMAIN intents[p]
          PROVE  intents'[p][i].status = "succeeded" <=> intents[p][i].status = "succeeded"
      <4>1. CASE intents'[p][i].status = intents[p][i].status BY <4>1
      <4>2. CASE p \in DOMAIN names /\ i = names[p]
        <5>1. intents[p][i].status = "dispatched" BY <1>3, <4>2
        <5>2. status[p] = "no-op" BY <2>2 DEF status
        <5> QED BY <1>8, <4>2, <5>1, <5>2
      <4> QED BY <1>8, <4>1, <4>2 DEF OnlyNamed, names
    <3> QED BY <1>7, <3>1, <3>2 DEF Proven, RowGoesOn
  <2> QED BY <1>6, <2>1, <2>2 DEF Proven
<1> QED BY <1>1, <1>4, <1>8, <1>10, <1>11, <1>12, StopIsOver

\* A stop that comes too late: its Job runs again, as far as the bridge knows.
LEMMA TooLateStep ==
    ASSUME RegistryInv, NEW j \in Jobs, up, stop[j] # None, NEW a \in Answers(j),
           ~Confirmed(a), a.kind # "unconfirmed", NEW lost, StopReturns(j, a, lost), UNCHANGED <<told, up>>
    PROVE  RegistryInv'
<1> DEFINE names == Names(stop[j], j)
           c == AnswerGives(j, a, j)
           status == [p \in Jobs |-> "no-op"]
<1>1. Affected(j, a) = {j}
  <2>1. DOMAIN stop[j].peers \subseteq Jobs \ {j} /\ turn \in [Jobs -> Turns]
        BY StopNames DEF RegistryInv, RegistryTypeOK
  <2> QED BY <2>1, AnswersLeave
<1>2. /\ mem' = [p \in Jobs |-> IF p \in {j} THEN AnswerGives(j, a, p) ELSE mem[p]]
      /\ row' = [p \in Jobs |-> IF p \in {j} \ lost THEN Upserted(row[p], mem'[p]) ELSE row[p]]
      /\ stop' = [stop EXCEPT ![j] = None] /\ Flushed(j, deferredSettlements)
      /\ turn' = Acknowledged(a.left, mem', Affected(j, a))
      BY <1>1 DEF StopReturns, Answered, RecordChange
<1>3. /\ intents' = [p \in Jobs |-> intents'[p]]
      /\ \A p \in Jobs : intents'[p] \in {intents[p], Aged(intents[p])} \/
            (p \in DOMAIN names /\ intents'[p] \in {Marked(intents[p], names[p], status[p]),
                                                    Marked(Aged(intents[p]), names[p], status[p])})
      BY DEF StopReturns, AgedOf
<1>4. /\ mem[j] \in JobRows /\ row[j] \in JobRows /\ c \in JobRows /\ c.dispatched = mem[j].dispatched
      /\ c.status \in ActiveStatus /\ c.origin = mem[j].origin
      BY <1>1, AnsweredJob
<1>5. /\ turn' \in [Jobs -> Turns]
      /\ \A p \in Jobs : turn'[p] = "running" => turn[p] = "running"
      /\ \A p \in Jobs : turn'[p] = "none" => turn[p] = "none"
      /\ \A p \in Jobs : turn'[p] = "released" => turn[p] = "released" \/ (p = j /\ Is(mem', p, TerminalStatus))
      BY <1>1, <1>2, AcknowledgedLeft
<1> HIDE DEF names, c, status
<1>6. intents' \in [Jobs -> Seq(IntentRows)] /\ OnlyNamed(j) /\ SucceededStay
  <2>1. status \in [Jobs -> IntentStatus] BY DEF IntentStatus, status
  <2>2. /\ intents' \in [Jobs -> Seq(IntentRows)] /\ OnlyNamed(j)
        /\ \A p \in DOMAIN names : intents'[p][names[p]].status \in {"dispatched", status[p]}
        BY <1>3, <2>1, NamedIntents DEF names
  <2>3. \A p \in DOMAIN names : intents'[p][names[p]].status # "succeeded"
    <3>1. \A p \in DOMAIN names : p \in Jobs BY StopNames DEF names
    <3> QED BY <2>2, <3>1 DEF status
  <2> QED BY <2>2, <2>3, NothingSucceeds DEF names
<1> USE NoneIsNothing DEF RegistryInv
<1>7. mem'[j] = c /\ row'[j] \in {row[j], Upserted(row[j], c)} /\ stop'[j] = None
      BY <1>2 DEF c, RegistryTypeOK
<1>8. \A p \in Jobs : TurnGoesOn(p)
  <2>1. ~Is(mem', j, TerminalStatus) BY <1>4, <1>7, ActiveOrTerminal DEF Is
  <2> QED BY <1>5, <2>1 DEF TurnGoesOn
<1>9. /\ end' \in [Jobs -> Outcomes \cup {None}] /\ deferredSettlements' \in [Jobs -> Outcomes \cup {None}]
      /\ \A k \in Jobs \ {j} : end'[k] = end[k] /\ deferredSettlements'[k] = deferredSettlements[k]
      /\ deferredSettlements'[j] = None
      /\ end'[j] = IF deferredSettlements[j] = None THEN end[j] ELSE deferredSettlements[j]
  <2>1. deferredSettlements \in [Jobs -> Outcomes \cup {None}] BY DEF RegistryTypeOK
  <2> QED BY <1>2, <2>1, FlushedOutcome
<1>10. row'[j] \in JobRows /\ RowGoesOn(j) /\ JobInv(j)' BY <1>4, <1>7, <1>8, <1>9, BackJob
<1>11. ASSUME NEW p \in Jobs \ {j} PROVE JobInv(p)' /\ RowGoesOn(p) /\ mem'[p] = mem[p] /\ row'[p] = row[p]
  <2>1. JobRest(p)' = JobRest(p) BY <1>2, <1>9 DEF JobRest
  <2>2. mem'[p] = mem[p] /\ row'[p] = row[p] BY <2>1 DEF JobRest
  <2>3. stop'[p] \in {stop[p], None} BY <1>2 DEF RegistryTypeOK
  <2>4. JobInv(p)' BY <1>8, <2>1, <2>3, JobRests
  <2>5. RowGoesOn(p) BY <1>8, <2>2 DEF RowGoesOn, Over, TurnGoesOn, StopEnded, Is
  <2> QED BY <2>2, <2>4, <2>5
<1>12. RegistryTypeOK'
  <2>1. \A p \in Jobs : mem'[p] \in JobRows \cup {None} /\ row'[p] \in JobRows \cup {None}
        BY <1>4, <1>7, <1>10, <1>11 DEF RegistryTypeOK
  <2>2. mem' \in [Jobs -> JobRows \cup {None}] /\ row' \in [Jobs -> JobRows \cup {None}] BY <1>2, <2>1
  <2>3. stop' \in [Jobs -> StopRows \cup {None}] BY <1>2 DEF RegistryTypeOK
  <2> QED BY <1>5, <1>6, <1>9, <2>2, <2>3 DEF RegistryTypeOK
<1>13. Proven' BY <1>6, <1>10, <1>11, QuietProven
<1>14. \A p \in Jobs : JobInv(p)' /\ (mem[p] # None => mem'[p] # None) BY <1>4, <1>7, <1>10, <1>11
<1> QED BY <1>2, <1>5, <1>6, <1>12, <1>13, <1>14, StopIsOver

\* A stop that was not confirmed, or whose answer was rolled back: memory has
\* changed for the Jobs in `done`, and the target, if it is in `failed`, is said to
\* be terminating no longer.
FailedMemory(j, a, done, failed) == [p \in Jobs |->
    IF p \in failed THEN [Answered(j, a, done)[p] EXCEPT !.status = "termination-failed"]
    ELSE Answered(j, a, done)[p]]

LEMMA FailedStop ==
    ASSUME RegistryInv, NEW j \in Jobs, up, stop[j] # None, NEW a \in Answers(j), turn' = a.left,
           NEW done \in SUBSET Affected(j, a), NEW failed \in SUBSET {j},
           mem' = FailedMemory(j, a, done, failed),
           row' = [row EXCEPT ![j] = row'[j]], row'[j] \in {row[j], Upserted(row[j], mem'[j])},
           j \notin failed => row'[j] = row[j],
           stop' = [stop EXCEPT ![j] = None],
           end' \in [Jobs -> Outcomes \cup {None}], deferredSettlements' \in [Jobs -> Outcomes \cup {None}],
           \A p \in Jobs \ {j} : end'[p] = end[p] /\ deferredSettlements'[p] = Undeferred(a, done)[p],
           end[j] # None => end'[j] # None,
           Undeferred(a, done)[j] # None => end'[j] # None \/ deferredSettlements'[j] # None,
           end'[j] # None \/ deferredSettlements'[j] # None => end[j] # None \/ deferredSettlements[j] # None,
           j \notin failed => end'[j] = end[j] /\ deferredSettlements'[j] = Undeferred(a, done)[j],
           intents' \in [Jobs -> Seq(IntentRows)], OnlyNamed(j), SucceededStay,
           UNCHANGED <<told, up>>
    PROVE  RegistryInv'
<1>1. /\ turn' \in [Jobs -> Turns]
      /\ \A p \in Jobs : TurnGoesOn(p)
      /\ Confirmed(a) => \A p \in done : turn'[p] \notin {"none", "running"}
      BY LeftTurns DEF TurnGoesOn
<1>2. ASSUME NEW p \in done
      PROVE  /\ p \in Jobs /\ mem[p] \in JobRows /\ row[p] \in JobRows
             /\ AnswerGives(j, a, p) \in JobRows /\ AnswerGives(j, a, p).dispatched = mem[p].dispatched
             /\ ~Confirmed(a) => /\ p = j /\ AnswerGives(j, a, p).status \in ActiveStatus
                                 /\ AnswerGives(j, a, p).origin = mem[p].origin
             /\ Confirmed(a) => AnswerGives(j, a, p).origin \in StopOrigins
      BY AnsweredJob
<1>3. mem[j] \in JobRows /\ row[j] \in JobRows
  <2>1. mem[j] # None BY StopNames
  <2> QED BY <2>1 DEF RegistryInv, JobInv, InMemory, RegistryTypeOK
<1> USE NoneIsNothing DEF RegistryInv
<1> DEFINE x(p) == IF p \in done THEN AnswerGives(j, a, p) ELSE mem[p]
<1>4. \A p \in Jobs : mem'[p] = IF p \in failed THEN [x(p) EXCEPT !.status = "termination-failed"] ELSE x(p)
      BY DEF FailedMemory, Answered
<1>5. ASSUME NEW p \in Jobs
      PROVE  Undeferred(a, done)[p] = IF Confirmed(a) /\ p \in done THEN None ELSE deferredSettlements[p]
      BY DEF Undeferred
<1>6. \A p \in Jobs \ {j} : row'[p] = row[p] BY DEF RegistryTypeOK
<1>7. \A p \in Jobs : stop'[p] \in {stop[p], None} BY DEF RegistryTypeOK
<1>8. "termination-failed" \in ActiveStatus BY DEF ActiveStatus, Live
\* A confirmed stop, forgotten by the database: it has ended the Job in memory.
<1>9. ASSUME NEW p \in done, Confirmed(a)
      PROVE  mem'[p] # None /\ row'[p] = row[p] /\ JobInv(p)' /\ RowGoesOn(p)
  <2>1. /\ p \in Jobs /\ x(p) \in JobRows /\ x(p).origin \in StopOrigins /\ mem[p] # None
        BY <1>2, <1>9
  <2> HIDE DEF x
  <2>2. /\ mem'[p] \in JobRows /\ mem'[p].origin \in StopOrigins
        /\ p \in failed => mem'[p].status = "termination-failed"
    <3> DEFINE y == x(p)
    <3>1. y \in JobRows /\ y.origin \in StopOrigins BY <2>1
    <3>2. mem'[p] = IF p \in failed THEN [y EXCEPT !.status = "termination-failed"] ELSE y BY <1>4, <2>1
    <3> HIDE DEF y
    <3>3. /\ [y EXCEPT !.status = "termination-failed"] \in JobRows
          /\ [y EXCEPT !.status = "termination-failed"].origin = y.origin
          /\ [y EXCEPT !.status = "termination-failed"].status = "termination-failed"
          BY <1>8, <3>1 DEF JobRows
    <3> QED BY <3>1, <3>2, <3>3
  <2>3. row'[p] = row[p]
    <3>1. CASE p # j \/ p \notin failed BY <1>6, <2>1, <3>1
    <3>2. CASE p = j /\ p \in failed
      <4>1. Upserted(row[j], mem'[j]) = row[j]
        <5>1. mem'[j].status \in ActiveStatus /\ mem'[j].origin # None /\ mem'[j] \in JobRows
              BY <1>8, <2>2, <3>2
        <5>2. ~(Accepts(row[j], mem'[j]) /\ ~Ends(row[j], mem'[j]))
          <6> DEFINE c == mem'[j]
          <6>1. c \in JobRows /\ c.status \in ActiveStatus /\ c.origin # None BY <5>1
          <6> HIDE DEF c
          <6>2. ~(Accepts(row[j], c) /\ ~Ends(row[j], c)) BY <1>3, <6>1, OpenCandidate
          <6> QED BY <6>2 DEF c
        <5> QED BY <5>2 DEF Upserted
      <4> QED BY <3>2, <4>1
    <3> QED BY <3>1, <3>2
  <2>4. row'[p] \in JobRows /\ turn'[p] \notin {"none", "running"} BY <1>1, <1>2, <1>9, <2>3
  <2>5. end'[p] # None \/ deferredSettlements'[p] # None => end[p] # None \/ deferredSettlements[p] # None
        BY <1>5, <2>1
  <2>6. JobInv(p)' /\ Over(p)' BY <2>1, <2>2, <2>3, <2>4, <2>5, HitJob
  <2>7. RowGoesOn(p) BY <2>3, <2>6 DEF RowGoesOn, StopEnded, Is
  <2> QED BY <2>2, <2>3, <2>6, <2>7
\* The target, if it has no end: it runs again, or could not be terminated.
<1>10. ASSUME ~(Confirmed(a) /\ j \in done), j \in done \cup failed
       PROVE  mem'[j] # None /\ row'[j] \in JobRows /\ JobInv(j)' /\ RowGoesOn(j)
  <2>1. /\ x(j) \in JobRows /\ x(j).dispatched = mem[j].dispatched /\ x(j).origin = mem[j].origin
        /\ j \in done => x(j).status \in ActiveStatus
        BY <1>2, <1>3, <1>10
  <2> HIDE DEF x
  <2> DEFINE c == mem'[j]
  <2>2. /\ c \in JobRows /\ c.dispatched = mem[j].dispatched /\ c.origin = mem[j].origin
        /\ c.status \in ActiveStatus
        BY <1>4, <1>8, <1>10, <2>1 DEF JobRows
  <2>3. row'[j] \in {row[j], Upserted(row[j], c)} OBVIOUS
  <2>4. deferredSettlements[j] # None => end'[j] # None \/ deferredSettlements'[j] # None BY <1>5, <1>10
  <2>5. c = mem'[j] OBVIOUS
  <2> HIDE DEF c
  <2>6. row'[j] \in JobRows /\ RowGoesOn(j) /\ JobInv(j)' BY <1>1, <2>2, <2>3, <2>4, <2>5, BackJob
  <2> QED BY <2>2, <2>5, <2>6
\* The others are left as they were.
<1>11. ASSUME NEW p \in Jobs, p \notin done \cup failed
       PROVE  mem'[p] = mem[p] /\ row'[p] = row[p] /\ JobInv(p)' /\ RowGoesOn(p)
  <2>1. mem'[p] = mem[p] /\ row'[p] = row[p] BY <1>4, <1>6, <1>11
  <2>2. end'[p] = end[p] /\ deferredSettlements'[p] = deferredSettlements[p] BY <1>5, <1>11
  <2>3. JobRest(p)' = JobRest(p) BY <2>1, <2>2 DEF JobRest
  <2>4. JobInv(p)' BY <1>1, <1>7, <2>3, JobRests
  <2>5. RowGoesOn(p) BY <1>1, <2>1 DEF RowGoesOn, Over, TurnGoesOn, StopEnded, Is
  <2> QED BY <2>1, <2>4, <2>5
<1> HIDE DEF x
<1>12. ASSUME NEW p \in Jobs
       PROVE  /\ mem'[p] \in JobRows \cup {None} /\ row'[p] \in JobRows \cup {None}
              /\ mem[p] # None => mem'[p] # None
              /\ JobInv(p)' /\ RowGoesOn(p)
  <2>1. CASE p \in done /\ Confirmed(a)
    <3>1. mem'[p] # None /\ row'[p] = row[p] /\ JobInv(p)' /\ RowGoesOn(p) BY <1>9, <2>1
    <3>2. mem'[p] \in JobRows
      <4>1. x(p) \in JobRows BY <1>2, <2>1 DEF x
      <4> QED BY <1>4, <1>8, <4>1 DEF JobRows
    <3> QED BY <3>1, <3>2 DEF RegistryTypeOK
  <2>2. CASE ~(p \in done /\ Confirmed(a)) /\ p \in done \cup failed
    <3>1. p = j BY <1>2, <2>2
    <3>2. mem'[j] # None /\ row'[j] \in JobRows /\ JobInv(j)' /\ RowGoesOn(j) BY <1>10, <2>2, <3>1
    <3>3. mem'[j] \in JobRows
      <4>1. x(j) \in JobRows BY <1>2, <1>3 DEF x
      <4> QED BY <1>4, <1>8, <4>1 DEF JobRows
    <3> QED BY <3>1, <3>2, <3>3
  <2>3. CASE p \notin done \cup failed BY <1>11, <2>3 DEF RegistryTypeOK
  <2> QED BY <2>1, <2>2, <2>3
<1>13. RegistryTypeOK'
  <2>1. mem' \in [Jobs -> JobRows \cup {None}]
    <3>1. mem' = [p \in Jobs |-> mem'[p]] BY DEF FailedMemory
    <3> QED BY <1>12, <3>1
  <2>2. row' \in [Jobs -> JobRows \cup {None}] BY <1>12 DEF RegistryTypeOK
  <2>3. stop' \in [Jobs -> StopRows \cup {None}] BY DEF RegistryTypeOK
  <2> QED BY <1>1, <2>1, <2>2, <2>3 DEF RegistryTypeOK
<1>14. Proven' BY <1>12, QuietProven
<1>15. \A p \in Jobs : turn'[p] = "none" => turn[p] = "none" BY <1>1 DEF TurnGoesOn
<1> QED BY <1>12, <1>13, <1>14, <1>15, StopIsOver

LEMMA FailsStep ==
    ASSUME RegistryInv, NEW j \in Jobs, up, stop[j] # None, NEW a \in Answers(j), turn' = a.left,
           NEW done \in SUBSET Affected(j, a), NEW lost, StopFails(j, a, done, lost), UNCHANGED <<told, up>>
    PROVE  RegistryInv'
<1> DEFINE names == Names(stop[j], j)
           left == Undeferred(a, done)
           status == [p \in Jobs |-> "failed"]
<1>1. /\ mem' = [Answered(j, a, done) EXCEPT ![j].status = "termination-failed"]
      /\ row' = [p \in Jobs |-> IF p \in {j} \ lost THEN Upserted(row[p], mem'[p]) ELSE row[p]]
      /\ stop' = [stop EXCEPT ![j] = None] /\ Flushed(j, left)
      BY DEF StopFails, RecordChange
<1>2. mem' = FailedMemory(j, a, done, {j}) BY <1>1 DEF FailedMemory, Answered
<1>3. row' = [row EXCEPT ![j] = row'[j]] /\ row'[j] \in {row[j], Upserted(row[j], mem'[j])}
  <2>1. row' = [p \in Jobs |-> IF p \in {j} \ lost THEN Upserted(row[p], mem'[p]) ELSE row[p]] BY <1>1
  <2>2. row = [p \in Jobs |-> row[p]] BY DEF RegistryInv, RegistryTypeOK
  <2> QED BY <2>1, <2>2
<1>4. /\ intents' = [p \in Jobs |-> intents'[p]]
      /\ \A p \in Jobs : intents'[p] \in {intents[p], Aged(intents[p])} \/
            (p \in DOMAIN names /\ intents'[p] \in {Marked(intents[p], names[p], status[p]),
                                                    Marked(Aged(intents[p]), names[p], status[p])})
      BY DEF StopFails, AgedOf
<1> HIDE DEF names, status
<1>5. intents' \in [Jobs -> Seq(IntentRows)] /\ OnlyNamed(j) /\ SucceededStay
  <2>1. status \in [Jobs -> IntentStatus] BY DEF IntentStatus, status
  <2>2. /\ intents' \in [Jobs -> Seq(IntentRows)] /\ OnlyNamed(j)
        /\ \A p \in DOMAIN names : intents'[p][names[p]].status \in {"dispatched", status[p]}
        BY <1>4, <2>1, NamedIntents DEF names
  <2>3. \A p \in DOMAIN names : intents'[p][names[p]].status # "succeeded"
    <3>1. \A p \in DOMAIN names : p \in Jobs BY StopNames DEF names
    <3> QED BY <2>2, <3>1 DEF status
  <2> QED BY <2>2, <2>3, NothingSucceeds DEF names
<1>6. left \in [Jobs -> Outcomes \cup {None}] /\ left[j] \in {deferredSettlements[j], None}
      BY DEF Undeferred, RegistryInv, RegistryTypeOK
<1> HIDE DEF left
<1>7. /\ end' \in [Jobs -> Outcomes \cup {None}] /\ deferredSettlements' \in [Jobs -> Outcomes \cup {None}]
      /\ \A k \in Jobs \ {j} : end'[k] = end[k] /\ deferredSettlements'[k] = left[k]
      /\ deferredSettlements'[j] = None
      /\ end'[j] = IF left[j] = None THEN end[j] ELSE left[j]
      BY <1>1, <1>6, FlushedOutcome DEF RegistryInv
<1>8. /\ end[j] # None => end'[j] # None
      /\ left[j] # None => end'[j] # None
      /\ end'[j] # None \/ deferredSettlements'[j] # None => end[j] # None \/ deferredSettlements[j] # None
      BY <1>6, <1>7
<1> DEFINE failed == {j}
<1>9. failed \in SUBSET {j} /\ j \in failed OBVIOUS
<1>10. mem' = FailedMemory(j, a, done, failed) BY <1>2
<1> HIDE DEF failed
<1>11. /\ \A p \in Jobs \ {j} : end'[p] = end[p] /\ deferredSettlements'[p] = Undeferred(a, done)[p]
       /\ Undeferred(a, done)[j] # None => end'[j] # None \/ deferredSettlements'[j] # None
       /\ j \notin failed => /\ row'[j] = row[j] /\ end'[j] = end[j]
                             /\ deferredSettlements'[j] = Undeferred(a, done)[j]
       BY <1>7, <1>8, <1>9 DEF left
<1>12. stop' = [stop EXCEPT ![j] = None] BY <1>1
<1> QED BY <1>3, <1>5, <1>7, <1>8, <1>9, <1>10, <1>11, <1>12, FailedStop

\* Nobody says what became of the stop: the intents that it named stay open.
LEMMA ForgottenStep ==
    ASSUME RegistryInv, NEW j \in Jobs, up, stop[j] # None, NEW a \in Answers(j), turn' = a.left,
           NEW done \in SUBSET Affected(j, a), NEW failed \in SUBSET {j},
           StopForgotten(j, a, done, failed), UNCHANGED <<told, up>>
    PROVE  RegistryInv'
<1> DEFINE names == Names(stop[j], j)
           left == Undeferred(a, done)
           status == [p \in Jobs |-> "failed"]
<1>1. /\ mem' = FailedMemory(j, a, done, failed)
      /\ row' = row /\ stop' = [stop EXCEPT ![j] = None] /\ end' = end /\ deferredSettlements' = left
      BY DEF StopForgotten, FailedMemory
<1>2. row' = [row EXCEPT ![j] = row'[j]] /\ row'[j] = row[j]
      BY <1>1 DEF RegistryInv, RegistryTypeOK
<1>3. intents' = [p \in Jobs |-> intents'[p]] /\ \A p \in Jobs : intents'[p] \in {intents[p], Aged(intents[p])}
      BY DEF StopForgotten, AgedOf
<1> HIDE DEF names, status
<1>4. intents' \in [Jobs -> Seq(IntentRows)] /\ OnlyNamed(j) /\ SucceededStay
  <2>1. status \in [Jobs -> IntentStatus] BY DEF IntentStatus, status
  <2>2. /\ intents' \in [Jobs -> Seq(IntentRows)] /\ OnlyNamed(j)
        /\ \A p \in DOMAIN names : intents'[p][names[p]].status \in {"dispatched", status[p]}
        BY <1>3, <2>1, NamedIntents DEF names
  <2>3. \A p \in DOMAIN names : intents'[p][names[p]].status # "succeeded"
    <3>1. \A p \in DOMAIN names : p \in Jobs BY StopNames DEF names
    <3> QED BY <2>2, <3>1 DEF status
  <2> QED BY <2>2, <2>3, NothingSucceeds DEF names
<1>5. left \in [Jobs -> Outcomes \cup {None}] /\ left[j] \in {deferredSettlements[j], None}
      BY DEF Undeferred, RegistryInv, RegistryTypeOK
<1> HIDE DEF left
<1>6. /\ end' \in [Jobs -> Outcomes \cup {None}] /\ deferredSettlements' \in [Jobs -> Outcomes \cup {None}]
      /\ \A k \in Jobs : end'[k] = end[k] /\ deferredSettlements'[k] = left[k]
      BY <1>1, <1>5 DEF RegistryInv, RegistryTypeOK
<1>7. /\ end[j] # None => end'[j] # None
      /\ left[j] # None => deferredSettlements'[j] # None
      /\ end'[j] # None \/ deferredSettlements'[j] # None => end[j] # None \/ deferredSettlements[j] # None
      BY <1>5, <1>6
<1>8. /\ \A p \in Jobs \ {j} : end'[p] = end[p] /\ deferredSettlements'[p] = Undeferred(a, done)[p]
      /\ Undeferred(a, done)[j] # None => end'[j] # None \/ deferredSettlements'[j] # None
      /\ j \notin failed => /\ row'[j] = row[j] /\ end'[j] = end[j]
                            /\ deferredSettlements'[j] = Undeferred(a, done)[j]
      BY <1>2, <1>6, <1>7 DEF left
<1>9. row'[j] \in {row[j], Upserted(row[j], mem'[j])} BY <1>2
<1> QED BY <1>1, <1>2, <1>4, <1>6, <1>7, <1>8, <1>9, FailedStop

LEMMA ForceStep == ASSUME RegistryInv, NEW j \in Jobs, ForceTerminateJob(j) PROVE RegistryInv'
<1>1. up /\ stop[j] # None /\ UNCHANGED <<told, up>> BY DEF ForceTerminateJob
<1>2. PICK a \in Answers(j) :
         \/ a.kind # "unconfirmed" /\ \E lost \in SUBSET Affected(j, a) : StopReturns(j, a, lost)
         \/ /\ turn' = a.left
            /\ \E done \in SUBSET Affected(j, a), last \in SUBSET {j} :
                  StopFails(j, a, done, last) \/ StopForgotten(j, a, done, last)
      BY DEF ForceTerminateJob
<1>3. ASSUME a.kind # "unconfirmed", NEW lost, StopReturns(j, a, lost) PROVE RegistryInv'
      BY <1>1, <1>3, TooLateStep, SucceedsStep
<1>4. ASSUME turn' = a.left, NEW done \in SUBSET Affected(j, a), NEW last \in SUBSET {j},
             StopFails(j, a, done, last)
      PROVE  RegistryInv'
      BY <1>1, <1>4, FailsStep
<1>5. ASSUME turn' = a.left, NEW done \in SUBSET Affected(j, a), NEW last \in SUBSET {j},
             StopForgotten(j, a, done, last)
      PROVE  RegistryInv'
      BY <1>1, <1>5, ForgottenStep
<1> QED BY <1>2, <1>3, <1>4, <1>5

--------------------------------------------------------------------------
(* The crash and the restart of the bridge *)

LEMMA CrashStep == ASSUME RegistryInv, BridgeCrash PROVE RegistryInv'
<1> USE DEF RegistryInv
<1>1. /\ up' = FALSE /\ mem' = [j \in Jobs |-> None] /\ stop' = [j \in Jobs |-> None]
      /\ end' = [j \in Jobs |-> None] /\ deferredSettlements' = [j \in Jobs |-> None]
      /\ told' = [j \in Jobs |-> FALSE] /\ UNCHANGED <<row, intents>>
      /\ turn' = [j \in Jobs |-> IF j \in Receipted \/ turn[j] = "none" THEN turn[j] ELSE "gone"]
      BY DEF BridgeCrash
<1>2. /\ turn' \in [Jobs -> Turns]
      /\ \A j \in Jobs : /\ turn'[j] = "running" => turn[j] = "running"
                         /\ turn'[j] = "none" => turn[j] = "none"
      BY <1>1 DEF RegistryTypeOK, Turns
<1>3. RegistryTypeOK' BY <1>1, <1>2 DEF RegistryTypeOK
<1>4. \A j \in Jobs : JobInv(j)'
      BY <1>1, <1>2
      DEF JobInv, InMemory, EndedOnRecord, ActiveIsOpen, RunningIsDispatched, ToldIsOver, Kept, Is
<1>5. NamedAreOpen' /\ NamedOnce' BY <1>1 DEF NamedAreOpen, NamedOnce
<1>6. \A j \in Jobs : RowGoesOn(j) BY <1>1, <1>2 DEF RowGoesOn, Over, StopEnded, Is
<1>7. SucceededStay BY <1>1 DEF SucceededStay
<1>8. Proven' BY <1>6, <1>7, QuietProven
<1> QED BY <1>3, <1>4, <1>5, <1>8

\* An active Job that died with the bridge: its turn may have begun, or did not.
LEMMA ReloadedRow ==
    ASSUME NEW old \in JobRows, old.status \in ActiveStatus, old.origin = None
    PROVE  /\ Reloaded(old) \in JobRows /\ Upserted(old, Reloaded(old)) \in JobRows
           /\ Reloaded(old).dispatched = old.dispatched
           /\ Upserted(old, Reloaded(old)).status = Reloaded(old).status
           /\ old.dispatched =>
                 /\ Reloaded(old).status \in ActiveStatus /\ Reloaded(old).origin = None
                 /\ Upserted(old, Reloaded(old)).origin = None /\ Upserted(old, Reloaded(old)).dispatched
           /\ ~old.dispatched => /\ Reloaded(old).status = "interrupted"
                                 /\ Upserted(old, Reloaded(old)).origin = "bridge-restart"
<1> USE NoneIsNothing
<1> DEFINE c == Reloaded(old)
<1>1. CASE old.dispatched
  <2>1. c \in JobRows /\ c.status = "termination-failed" /\ c.origin = None /\ c.dispatched
        BY <1>1 DEF Reloaded, JobRows, ActiveStatus, Live
  <2>2. c.status \in ActiveStatus BY <2>1 DEF ActiveStatus, Live
  <2> HIDE DEF c
  <2>3. /\ Upserted(old, c) \in JobRows /\ Upserted(old, c).status = c.status
        /\ Upserted(old, c).origin = None /\ Upserted(old, c).dispatched = c.dispatched
        BY <2>1, <2>2, ActiveIsTaken
  <2> QED BY <1>1, <2>1, <2>2, <2>3 DEF c
<1>2. CASE ~old.dispatched
  <2>1. c \in JobRows /\ c.status = "interrupted" /\ c.origin = "bridge-restart" /\ c.dispatched = old.dispatched
        BY <1>2 DEF Reloaded, JobRows, TerminalStatus, Origins
  <2>2. "bridge-restart" \in Origins \ {"app-server-interrupted"} BY DEF Origins
  <2> HIDE DEF c
  <2>3. Upserted(old, c) \in JobRows /\ Upserted(old, c).status = c.status /\ Upserted(old, c).origin = c.origin
        BY <2>1, <2>2, EndIsTaken, OriginsHaveEnds
  <2> QED BY <1>2, <2>1, <2>3 DEF c
<1> QED BY <1>1, <1>2

LEMMA RestartStep == ASSUME RegistryInv, BridgeRestart PROVE RegistryInv'
<1> USE NoneIsNothing DEF RegistryInv
<1> DEFINE active == {j \in Jobs : Is(row, j, ActiveStatus)}
           again(j) == [row[j] EXCEPT !.connected = FALSE,
                                      !.status = IF @ = "terminating" THEN "termination-failed" ELSE @]
<1>1. /\ ~up /\ up' = TRUE /\ UNCHANGED <<stop, end, deferredSettlements>>
      /\ mem' = [j \in Jobs |-> IF j \in active \cap Receipted THEN again(j)
                                ELSE IF j \in active THEN Reloaded(row[j]) ELSE row[j]]
      /\ row' = [j \in Jobs |-> IF j \in active \ Receipted THEN Upserted(row[j], mem'[j]) ELSE row[j]]
      /\ turn' = [j \in Jobs |->
            IF j \in active \cap Receipted /\ turn[j] \in {"none", "refused", "released"} THEN "lost" ELSE turn[j]]
      /\ told' = [j \in Jobs |-> Is(row, j, TerminalStatus) /\ turn[j] \in Outcomes]
      /\ intents' = [j \in Jobs |-> IF j \in active \ Receipted THEN Aged(intents[j]) ELSE intents[j]]
      BY DEF BridgeRestart
<1>2. \A j \in active : row[j] \in JobRows /\ row[j].status \in ActiveStatus /\ row[j].origin = None
      BY DEF RegistryTypeOK, JobInv, ActiveIsOpen, Is
<1>3. \A j \in Jobs \ active : row[j] = None \/ (row[j] \in JobRows /\ row[j].status \in TerminalStatus)
      BY ActiveOrTerminal DEF RegistryTypeOK, Is, JobRows
<1>4. \A j \in Jobs : /\ stop'[j] = None /\ end'[j] = None /\ deferredSettlements'[j] = None
                      /\ mem[j] = None /\ stop[j] = None
      BY <1>1 DEF JobInv, InMemory, ToldIsOver
<1>5. ASSUME NEW j \in Jobs
      PROVE  /\ turn'[j] \in Turns
             /\ turn'[j] = "running" => turn[j] = "running"
             /\ turn'[j] = "none" => turn[j] = "none" /\ j \notin active \cap Receipted
             /\ j \notin active => turn'[j] = turn[j]
  <2>1. turn[j] \in Turns /\ "lost" \in Turns BY DEF RegistryTypeOK, Turns, Outcomes
  <2>2. turn'[j] = IF j \in active \cap Receipted /\ turn[j] \in {"none", "refused", "released"} THEN "lost" ELSE turn[j]
        BY <1>1
  <2> HIDE DEF active
  <2> QED BY <2>1, <2>2
\* Whatever becomes of a Job: its memory, its row, and what the two have in common.
<1>6. ASSUME NEW j \in active \cap Receipted
      PROVE  /\ row'[j] = row[j] /\ mem'[j] \in JobRows /\ mem'[j].status \in ActiveStatus
             /\ mem'[j].origin = None /\ mem'[j].dispatched = row[j].dispatched
  <2>1. mem'[j] = again(j) /\ row'[j] = row[j] BY <1>1
  <2>2. "termination-failed" \in ActiveStatus BY DEF ActiveStatus, Live
  <2> QED BY <1>2, <2>1, <2>2 DEF JobRows
<1>7. ASSUME NEW j \in active \ Receipted
      PROVE  /\ mem'[j] \in JobRows /\ row'[j] \in JobRows /\ mem'[j].status = row'[j].status
             /\ mem'[j].dispatched = row[j].dispatched
             /\ row[j].dispatched =>
                   /\ row'[j].status \in ActiveStatus /\ mem'[j].origin = None
                   /\ row'[j].origin = None /\ row'[j].dispatched
             /\ ~row[j].dispatched => row'[j].status = "interrupted" /\ row'[j].origin = "bridge-restart"
  <2>1. mem'[j] = Reloaded(row[j]) /\ row'[j] = Upserted(row[j], Reloaded(row[j])) BY <1>1
  <2> HIDE DEF active
  <2> QED BY <1>2, <2>1, ReloadedRow
<1>8. ASSUME NEW j \in Jobs \ active PROVE mem'[j] = row[j] /\ row'[j] = row[j] BY <1>1
<1>9. /\ "interrupted" \in TerminalStatus /\ "interrupted" \notin ActiveStatus
      /\ "bridge-restart" \notin StopOrigins
      BY DEF TerminalStatus, ActiveStatus, Live, StopOrigins
<1>10. \A s \in TerminalStatus : s \notin ActiveStatus BY DEF TerminalStatus, ActiveStatus, Live
<1>11. ASSUME NEW j \in Jobs PROVE JobInv(j)' /\ RowGoesOn(j)
  <2> USE <1>4, <1>5, <1>9, <1>10
      DEF JobInv, InMemory, EndedOnRecord, ActiveIsOpen, RunningIsDispatched, ToldIsOver, Kept, RowGoesOn, Over,
          StopEnded, Is
  <2>1. turn'[j] = "running" => row[j] # None /\ (row[j].status \in ActiveStatus => row[j].dispatched) OBVIOUS
  <2>2. /\ told'[j] => row[j] # None /\ row[j].status \in TerminalStatus /\ turn[j] \in Outcomes
        /\ "none" \notin Outcomes /\ "running" \notin Outcomes
        BY <1>1 DEF Outcomes
  <2>3. CASE j \in active \cap Receipted
    <3>1. /\ row'[j] = row[j] /\ mem'[j] # None /\ mem'[j].status \in ActiveStatus
          /\ mem'[j].origin = None /\ mem'[j].dispatched = row[j].dispatched
          /\ row[j] # None /\ row[j].status \in ActiveStatus /\ row[j].origin = None
          BY <1>2, <1>6, <2>3
    <3> HIDE DEF active
    <3> QED BY <1>1, <2>1, <2>2, <2>3, <3>1
  <2>4. CASE j \in active \ Receipted
    <3>1. /\ row[j] # None /\ row[j].status \in ActiveStatus /\ row[j].origin = None
          /\ mem'[j] # None /\ row'[j] # None /\ mem'[j].status = row'[j].status
          /\ mem'[j].dispatched = row[j].dispatched
          /\ row[j].dispatched =>
                /\ row'[j].status \in ActiveStatus /\ mem'[j].origin = None
                /\ row'[j].origin = None /\ row'[j].dispatched
          /\ ~row[j].dispatched => row'[j].status = "interrupted" /\ row'[j].origin = "bridge-restart"
          BY <1>2, <1>7, <2>4
    <3> HIDE DEF active
    <3> QED BY <1>1, <2>1, <2>2, <2>4, <3>1
  <2>5. CASE j \in Jobs \ active
    <3>1. /\ mem'[j] = row[j] /\ row'[j] = row[j] /\ turn'[j] = turn[j]
          /\ row[j] = None \/ row[j].status \in TerminalStatus
          BY <1>3, <1>8, <2>5
    <3> HIDE DEF active
    <3> QED BY <1>1, <2>1, <2>2, <3>1
  <2> QED BY <2>3, <2>4, <2>5
<1>12. QuietIntents /\ intents' \in [Jobs -> Seq(IntentRows)]
  <2>1. \A j \in Jobs : intents[j] \in Seq(IntentRows) /\ intents'[j] \in {intents[j], Aged(intents[j])}
        BY <1>1 DEF RegistryTypeOK
  <2>2. \A j \in Jobs :
           /\ intents'[j] \in Seq(IntentRows) /\ DOMAIN intents'[j] = DOMAIN intents[j]
           /\ \A n \in DOMAIN intents[j] : intents'[j][n].status = intents[j][n].status
        BY <2>1, AgedList
  <2>3. intents' = [j \in Jobs |-> intents'[j]] BY <1>1
  <2> QED BY <2>2, <2>3 DEF QuietIntents
<1>13. RegistryTypeOK'
  <2>1. \A j \in Jobs : mem'[j] \in JobRows \cup {None} /\ row'[j] \in JobRows \cup {None}
        BY <1>2, <1>3, <1>6, <1>7, <1>8
  <2>2. mem' \in [Jobs -> JobRows \cup {None}] /\ row' \in [Jobs -> JobRows \cup {None}] BY <1>1, <2>1
  <2>3. turn' \in [Jobs -> Turns]
    <3>1. turn' = [j \in Jobs |-> turn'[j]] BY <1>1
    <3> QED BY <1>5, <3>1
  <2>4. told' \in [Jobs -> BOOLEAN] BY <1>1 DEF Is
  <2> QED BY <1>1, <1>12, <2>2, <2>3, <2>4 DEF RegistryTypeOK
<1>14. NamedAreOpen' /\ NamedOnce' BY <1>4 DEF NamedAreOpen, NamedOnce
<1>15. Proven'
  <2>1. SucceededStay BY <1>12 DEF QuietIntents, SucceededStay
  <2> QED BY <1>11, <2>1, QuietProven
<1> QED BY <1>11, <1>13, <1>14, <1>15

--------------------------------------------------------------------------
(* The end on record and the end of the turn *)

\* What settleExecution has for a Job is what became of its turn; a result
\* that is being committed may be forgotten by its owner meanwhile.
Fits(o, t) == o # None => t \in {o, "released"} \/ (o = "failed" /\ t = "refused")

\* A turn that has not begun is not stopped, and its Job has not ended behind
\* the memory that may still begin it.
EndInv(j) ==
    /\ Is(row, j, TerminalStatus) => turn[j] \in EndsAs(row[j].origin)
    /\ Fits(end[j], turn[j]) /\ Fits(deferredSettlements[j], turn[j])
    /\ turn[j] = "none" => stop[j] = None /\ (Is(mem, j, ActiveStatus) => ~Is(row, j, TerminalStatus))
    /\ ~up => end[j] = None /\ deferredSettlements[j] = None

EndsInv == \A j \in Jobs : EndInv(j)

\* What a step does to one Job: the invariant goes on, and an end on record stays one.
Onward(j) == EndInv(j)' /\ (Is(row, j, TerminalStatus) => Is(row', j, TerminalStatus))

\* A turn stays, ends, or its result is forgotten.
TurnMoves(j) ==
    \/ turn'[j] = turn[j]
    \/ turn[j] = "running" /\ turn'[j] \in Outcomes \cup {"released"}
    \/ turn[j] \in Outcomes /\ turn'[j] = "released"

LEMMA EndsOf ==
    /\ \A origin \in Origins \cup {None} : "released" \in EndsAs(origin) /\ "gone" \in EndsAs(origin)
                                          /\ "running" \notin EndsAs(origin)
    /\ \A o \in Outcomes : o \in EndsAs(OriginOf[o])
    /\ "refused" \in EndsAs(OriginOf["failed"])
    /\ \A origin \in {None, "explicit-cancellation", "assignment-containment", "bridge-restart"} :
          EndsAs(origin) = Turns \ {"running"}
<1>1. None \notin {"normal-completion", "upstream-failure", "app-server-interrupted", "worker-loss"}
      BY NoneIsNothing DEF Origins
<1> QED BY <1>1 DEF EndsAs, Origins, Outcomes, OriginOf, Turns

LEMMA StatusIsOne == TerminalStatus \cap ActiveStatus = {}
BY DEF TerminalStatus, ActiveStatus, Live

\* The end on record is untouched: the Job has ended before, or has not yet.
LEMMA EndRests ==
    ASSUME RegistryInv, RegistryInv', NEW j \in Jobs, EndInv(j),
           Is(row', j, TerminalStatus) => Is(row, j, TerminalStatus) /\ row'[j].origin = row[j].origin,
           Is(row, j, TerminalStatus) => Is(row', j, TerminalStatus),
           TurnMoves(j),
           Fits(end'[j], turn[j]), Fits(deferredSettlements'[j], turn[j]),
           stop'[j] # None => stop[j] # None \/ turn[j] # "none",
           Is(mem', j, ActiveStatus) => Is(mem, j, ActiveStatus) \/ turn[j] # "none",
           ~up' => end'[j] = None /\ deferredSettlements'[j] = None
    PROVE  Onward(j)
<1> USE NoneIsNothing
<1>1. ASSUME Is(row', j, TerminalStatus) PROVE turn'[j] \in EndsAs(row'[j].origin)
  <2>1. Is(row, j, TerminalStatus) /\ row'[j].origin = row[j].origin BY <1>1
  <2>2. turn[j] \in EndsAs(row[j].origin) BY <2>1 DEF EndInv
  <2>3. row[j].origin \in Origins \cup {None} BY <2>1 DEF Is, RegistryInv, RegistryTypeOK, JobRows
  <2>4. turn[j] # "running" /\ "released" \in EndsAs(row[j].origin) BY <2>2, <2>3, EndsOf
  <2> QED BY <2>1, <2>2, <2>4 DEF TurnMoves
<1>2. ASSUME NEW o \in Outcomes \cup {None}, Fits(o, turn[j]) PROVE Fits(o, turn'[j])
  <2>1. turn[j] = "running" => o = None BY <1>2 DEF Fits, Outcomes
  <2> QED BY <1>2, <2>1 DEF Fits, TurnMoves, Outcomes
<1>3. Fits(end'[j], turn'[j]) /\ Fits(deferredSettlements'[j], turn'[j])
      BY <1>2 DEF RegistryInv, RegistryTypeOK
<1>4. turn'[j] = "none" => turn[j] = "none" BY DEF TurnMoves, Outcomes
<1>5. turn'[j] = "none" => stop'[j] = None /\ (Is(mem', j, ActiveStatus) => ~Is(row', j, TerminalStatus))
      BY <1>4 DEF EndInv
<1> QED BY <1>1, <1>3, <1>5 DEF EndInv, Onward, Is

EndRest(j) == <<mem[j], row[j], stop[j], end[j], deferredSettlements[j], up>>

LEMMA EndFrame ==
    ASSUME RegistryInv, RegistryInv', NEW j \in Jobs, EndInv(j), EndRest(j)' = EndRest(j), TurnMoves(j)
    PROVE  Onward(j)
<1>1. /\ mem'[j] = mem[j] /\ row'[j] = row[j] /\ stop'[j] = stop[j] /\ end'[j] = end[j]
      /\ deferredSettlements'[j] = deferredSettlements[j] /\ up' = up
      BY DEF EndRest
<1>2. /\ Fits(end'[j], turn[j]) /\ Fits(deferredSettlements'[j], turn[j])
      /\ ~up' => end'[j] = None /\ deferredSettlements'[j] = None
      BY <1>1 DEF EndInv
<1>3. /\ Is(row', j, TerminalStatus) <=> Is(row, j, TerminalStatus)
      /\ Is(mem', j, ActiveStatus) <=> Is(mem, j, ActiveStatus)
      BY <1>1 DEF Is
<1> QED BY <1>1, <1>2, <1>3, EndRests

\* A Job that has ended now, of an origin that the turn agrees with.
LEMMA EndComes ==
    ASSUME RegistryInv, RegistryInv', NEW j \in Jobs, EndInv(j),
           Is(row', j, TerminalStatus), Is(mem', j, TerminalStatus), turn'[j] \in EndsAs(row'[j].origin),
           TurnMoves(j), Fits(end'[j], turn[j]), Fits(deferredSettlements'[j], turn[j]),
           stop'[j] \in {stop[j], None}, up'
    PROVE  Onward(j)
<1> USE NoneIsNothing
<1>1. ASSUME NEW o \in Outcomes \cup {None}, Fits(o, turn[j]) PROVE Fits(o, turn'[j])
  <2>1. turn[j] = "running" => o = None BY <1>1 DEF Fits, Outcomes
  <2> QED BY <1>1, <2>1 DEF Fits, TurnMoves, Outcomes
<1>2. Fits(end'[j], turn'[j]) /\ Fits(deferredSettlements'[j], turn'[j])
      BY <1>1 DEF RegistryInv, RegistryTypeOK
<1>3. turn'[j] = "none" => turn[j] = "none" BY DEF TurnMoves, Outcomes
<1>4. ~Is(mem', j, ActiveStatus) BY StatusIsOne DEF Is
<1> QED BY <1>2, <1>3, <1>4 DEF EndInv, Onward, Is

\* Whatever an active Job writes changes no end on record, and is none.
LEMMA ActiveWrites ==
    ASSUME NEW old \in JobRows \cup {None}, NEW c \in JobRows, c.status \in ActiveStatus,
           NEW new \in {old, Upserted(old, c), Progressed(old)}
    PROVE  /\ new # None /\ new.status \in TerminalStatus => new = old
           /\ old # None /\ old.status \in TerminalStatus => new = old
<1> USE NoneIsNothing
<1>1. ASSUME old # None, old.status \in TerminalStatus PROVE new = old
  <2>1. Upserted(old, c) = old BY <1>1 DEF Upserted, Ends
  <2>2. Progressed(old) = old BY <1>1, StatusIsOne DEF Progressed, ActiveStatus, Live
  <2> QED BY <2>1, <2>2
<1>2. ASSUME new # None, new.status \in TerminalStatus PROVE new = old
  <2>1. CASE new = Upserted(old, c)
    <3>1. c.status \notin TerminalStatus BY StatusIsOne
    <3> QED BY <1>2, <2>1, <3>1, UpsertedRow
  <2>2. CASE new = Progressed(old) BY <1>2, <2>2 DEF Progressed, TerminalStatus, JobRows
  <2> QED BY <2>1, <2>2
<1> QED BY <1>1, <1>2

LEMMA ActiveOnward ==
    ASSUME RegistryInv, RegistryInv', NEW j \in Jobs, EndInv(j), mem[j] # None, mem'[j] \in JobRows,
           mem'[j].status \in ActiveStatus, mem[j].status \in ActiveStatus \/ turn[j] # "none",
           row'[j] \in {row[j], Upserted(row[j], mem'[j]), Progressed(row[j])},
           TurnMoves(j), Fits(end'[j], turn[j]), Fits(deferredSettlements'[j], turn[j]),
           stop'[j] # None => stop[j] # None \/ turn[j] # "none", up'
    PROVE  Onward(j)
<1> USE NoneIsNothing
<1>1. row[j] \in JobRows \cup {None} BY DEF RegistryInv, RegistryTypeOK
<1>2. /\ Is(row', j, TerminalStatus) => row'[j] = row[j]
      /\ Is(row, j, TerminalStatus) => row'[j] = row[j]
      BY <1>1, ActiveWrites DEF Is
<1>3. /\ Is(row', j, TerminalStatus) => Is(row, j, TerminalStatus) /\ row'[j].origin = row[j].origin
      /\ Is(row, j, TerminalStatus) => Is(row', j, TerminalStatus)
      BY <1>2 DEF Is
<1>4. Is(mem', j, ActiveStatus) => Is(mem, j, ActiveStatus) \/ turn[j] # "none" BY DEF Is
<1> QED BY <1>3, <1>4, EndRests

EveryOnward == \A k \in Jobs : Onward(k)

LEMMA FitsNone == \A t : Fits(None, t)
BY DEF Fits

LEMMA EndStarts == ASSUME RegistryInv, RegistryInv', EndsInv, NEW j \in Jobs, StartJob(j) PROVE EveryOnward
<1> USE NoneIsNothing
<1>1. /\ up /\ row[j] = None /\ mem' = [mem EXCEPT ![j] = NewJob] /\ row' = [row EXCEPT ![j] = NewJob]
      /\ UNCHANGED <<stop, end, deferredSettlements, turn, told, up>>
      BY DEF StartJob
<1>2. mem'[j] = NewJob /\ row'[j] = NewJob /\ NewJob.status = "running"
      BY <1>1 DEF RegistryInv, RegistryTypeOK, NewJob
<1>3. Onward(j)
      BY <1>1, <1>2 DEF EndsInv, EndInv, Onward, Is, TerminalStatus
<1>4. \A k \in Jobs \ {j} : EndRest(k)' = EndRest(k) /\ TurnMoves(k)
      BY <1>1 DEF EndRest, TurnMoves, RegistryInv, RegistryTypeOK
<1> QED BY <1>3, <1>4, EndFrame DEF EndsInv, EveryOnward

LEMMA EndAsserts ==
    ASSUME RegistryInv, RegistryInv', EndsInv, NEW j \in Jobs, NEW ok \in BOOLEAN, AssertJobMayExecute(j, ok)
    PROVE  EveryOnward
<1> USE NoneIsNothing
<1> DEFINE c == [mem[j] EXCEPT !.dispatched = TRUE]
<1>1. /\ up /\ mem[j] # None /\ mem[j].status = "running" /\ turn[j] = "none" /\ end[j] = None
      /\ UNCHANGED <<stop, deferredSettlements, up>>
      BY DEF AssertJobMayExecute, Is
<1>2. /\ deferredSettlements[j] = None /\ stop[j] = None /\ ~Is(row, j, TerminalStatus)
      BY <1>1 DEF EndsInv, EndInv, Fits, Is, ActiveStatus, Live, RegistryInv, RegistryTypeOK, Outcomes
<1>3. \/ /\ mem' = [mem EXCEPT ![j] = c] /\ row' = [row EXCEPT ![j] = Upserted(@, mem'[j])]
         /\ turn' = [turn EXCEPT ![j] = "running"] /\ UNCHANGED <<end, told>>
      \/ /\ turn' = [turn EXCEPT ![j] = "refused"] /\ end' = [end EXCEPT ![j] = "failed"]
         /\ told' = [told EXCEPT ![j] = TRUE] /\ UNCHANGED <<mem, row>>
      BY DEF AssertJobMayExecute
<1>4. \A k \in Jobs \ {j} : EndRest(k)' = EndRest(k) /\ TurnMoves(k)
      BY <1>1, <1>3 DEF EndRest, TurnMoves, RegistryInv, RegistryTypeOK
<1>5. ~Is(row', j, TerminalStatus)
  <2>1. CASE mem' = [mem EXCEPT ![j] = c] /\ row' = [row EXCEPT ![j] = Upserted(@, mem'[j])]
    <3>1. mem[j] \in JobRows /\ row[j] \in JobRows \cup {None} BY <1>1 DEF RegistryInv, RegistryTypeOK
    <3>2. c \in JobRows /\ c.status \in ActiveStatus BY <1>1, <3>1 DEF JobRows, ActiveStatus, Live
    <3> HIDE DEF c
    <3>3. row'[j] = Upserted(row[j], c) BY <2>1 DEF RegistryInv, RegistryTypeOK
    <3>4. Is(row', j, TerminalStatus) => row'[j] = row[j] BY <3>1, <3>2, <3>3, ActiveWrites DEF Is
    <3> QED BY <1>2, <3>4 DEF Is
  <2>2. CASE UNCHANGED row BY <1>2, <2>2 DEF Is
  <2> QED BY <1>3, <2>1, <2>2
<1>6. turn'[j] \in {"running", "refused"} /\ (end'[j] = None \/ (end'[j] = "failed" /\ turn'[j] = "refused"))
      BY <1>1, <1>3 DEF RegistryInv, RegistryTypeOK
<1>7. Onward(j) BY <1>1, <1>2, <1>5, <1>6 DEF EndInv, Onward, Fits, Is
<1> QED BY <1>4, <1>7, EndFrame DEF EndsInv, EveryOnward

\* What a running turn reports is written over its own row, or not at all.
LEMMA EndReports ==
    ASSUME RegistryInv, RegistryInv', EndsInv, NEW j \in Jobs, up, Is(mem, j, ActiveStatus),
           mem' = [mem EXCEPT ![j] = mem'[j]], Is(mem', j, ActiveStatus),
           row' = [row EXCEPT ![j] = row'[j]],
           row'[j] \in {row[j], Upserted(row[j], mem'[j]), Progressed(row[j])},
           UNCHANGED <<stop, end, deferredSettlements, turn, told, up>>
    PROVE  EveryOnward
<1>1. mem[j] # None /\ mem'[j] \in JobRows /\ mem[j].status \in ActiveStatus /\ mem'[j].status \in ActiveStatus
      BY DEF Is, RegistryInv, RegistryTypeOK
<1>2. \A k \in Jobs : TurnMoves(k) BY DEF TurnMoves
<1>3. Fits(end'[j], turn[j]) /\ Fits(deferredSettlements'[j], turn[j]) BY DEF EndsInv, EndInv
<1>4. EndInv(j) BY DEF EndsInv
<1>5. Onward(j) BY <1>1, <1>2, <1>3, <1>4, ActiveOnward
<1>6. \A k \in Jobs \ {j} : mem'[k] = mem[k] /\ row'[k] = row[k]
  <2> DEFINE m == mem'[j]
             r == row'[j]
  <2>1. mem' = [mem EXCEPT ![j] = m] /\ row' = [row EXCEPT ![j] = r] OBVIOUS
  <2> HIDE DEF m, r
  <2> QED BY <2>1 DEF RegistryInv, RegistryTypeOK
<1>7. \A k \in Jobs \ {j} : EndRest(k)' = EndRest(k) BY <1>6 DEF EndRest
<1> QED BY <1>2, <1>5, <1>7, EndFrame DEF EndsInv, EveryOnward

LEMMA EndAssigns ==
    ASSUME RegistryInv, RegistryInv', EndsInv, NEW j \in Jobs, NEW ok \in BOOLEAN, RecordWorkerAssignment(j, ok)
    PROVE  EveryOnward
<1> USE NoneIsNothing
<1> DEFINE c == [mem[j] EXCEPT !.assigned = TRUE, !.connected = TRUE]
<1>1. /\ up /\ mem[j] # None /\ mem[j].status \in Live /\ mem' = [mem EXCEPT ![j] = c]
      /\ row' = [row EXCEPT ![j] = IF ok THEN Upserted(@, mem'[j]) ELSE @]
      /\ UNCHANGED <<stop, end, deferredSettlements, turn, told, up>>
      BY DEF RecordWorkerAssignment, Is
<1>2. mem[j] \in JobRows BY <1>1 DEF RegistryInv, RegistryTypeOK
<1>3. c # None /\ c.status = mem[j].status BY <1>2 DEF JobRows
<1> HIDE DEF c
<1>4. mem'[j] = c /\ mem' = [mem EXCEPT ![j] = mem'[j]] BY <1>1 DEF RegistryInv, RegistryTypeOK
<1>5. row' = [row EXCEPT ![j] = row'[j]] /\ row'[j] \in {row[j], Upserted(row[j], mem'[j])}
      BY <1>1 DEF RegistryInv, RegistryTypeOK
<1> QED BY <1>1, <1>3, <1>4, <1>5, EndReports DEF Is, ActiveStatus

LEMMA EndProgresses ==
    ASSUME RegistryInv, RegistryInv', EndsInv, NEW j \in Jobs, NEW later \in BOOLEAN, NEW ok \in BOOLEAN,
           RecordProgress(j, later, ok)
    PROVE  EveryOnward
<1> USE NoneIsNothing
<1> DEFINE c == [mem[j] EXCEPT !.status = "running"]
<1>1. /\ up /\ mem[j] # None /\ mem[j].status \in Live /\ mem' = [mem EXCEPT ![j] = c]
      /\ row' = [row EXCEPT ![j] = IF ok /\ ~later THEN Progressed(@) ELSE @]
      /\ UNCHANGED <<stop, end, deferredSettlements, turn, told, up>>
      BY DEF RecordProgress, Is
<1>2. mem[j] \in JobRows BY <1>1 DEF RegistryInv, RegistryTypeOK
<1>3. c \in JobRows /\ c.status \in ActiveStatus BY <1>2 DEF JobRows, ActiveStatus, Live
<1> HIDE DEF c
<1>4. mem'[j] = c /\ mem' = [mem EXCEPT ![j] = mem'[j]] BY <1>1 DEF RegistryInv, RegistryTypeOK
<1>5. row' = [row EXCEPT ![j] = row'[j]] /\ row'[j] \in {row[j], Progressed(row[j])}
      BY <1>1 DEF RegistryInv, RegistryTypeOK
<1> QED BY <1>1, <1>3, <1>4, <1>5, EndReports DEF Is, ActiveStatus

LEMMA EndProgressesLater ==
    ASSUME RegistryInv, RegistryInv', EndsInv, NEW j \in Jobs, NEW ok \in BOOLEAN, PersistDeferredProgress(j, ok)
    PROVE  EveryOnward
<1>1. /\ up /\ row' = [row EXCEPT ![j] = IF ok /\ Is(mem, j, ActiveStatus) THEN Progressed(@) ELSE @]
      /\ UNCHANGED <<mem, stop, end, deferredSettlements, turn, told, up>>
      BY DEF PersistDeferredProgress
<1>2. CASE Is(mem, j, ActiveStatus)
  <2>1. mem' = [mem EXCEPT ![j] = mem'[j]] /\ Is(mem', j, ActiveStatus)
        BY <1>1, <1>2 DEF RegistryInv, RegistryTypeOK, Is
  <2>2. row' = [row EXCEPT ![j] = row'[j]] /\ row'[j] \in {row[j], Progressed(row[j])}
        BY <1>1 DEF RegistryInv, RegistryTypeOK
  <2> QED BY <1>1, <1>2, <2>1, <2>2, EndReports
<1>3. CASE ~Is(mem, j, ActiveStatus)
  <2>1. row' = row BY <1>1, <1>3 DEF RegistryInv, RegistryTypeOK
  <2>2. \A k \in Jobs : EndRest(k)' = EndRest(k) /\ TurnMoves(k) BY <1>1, <2>1 DEF EndRest, TurnMoves
  <2> QED BY <2>2, EndFrame DEF EndsInv, EveryOnward
<1> QED BY <1>2, <1>3

\* Only turns change, and they end.
LEMMA EndTurns ==
    ASSUME RegistryInv, RegistryInv', EndsInv, UNCHANGED <<mem, row, stop, end, deferredSettlements, told, up>>,
           \A k \in Jobs : TurnMoves(k)
    PROVE  EveryOnward
<1>1. \A k \in Jobs : EndRest(k)' = EndRest(k) BY DEF EndRest
<1> QED BY <1>1, EndFrame DEF EndsInv, EveryOnward

LEMMA LostMoves ==
    ASSUME NEW k \in Jobs
    PROVE  Lost(turn)[k] = IF turn[k] = "running" THEN "lost" ELSE turn[k]
BY DEF Lost

LEMMA ForgottenTurns ==
    ASSUME NEW t, NEW m, NEW js, NEW k \in Jobs
    PROVE  Acknowledged(t, m, js)[k] = t[k] \/ (t[k] \in Outcomes /\ Acknowledged(t, m, js)[k] = "released")
BY DEF Acknowledged

LEMMA EndSettles ==
    ASSUME RegistryInv, RegistryInv', EndsInv, NEW j \in Jobs, NEW ok \in BOOLEAN, SettleExecution(j, ok)
    PROVE  EveryOnward
<1> USE NoneIsNothing
<1> DEFINE o == Outcome(j)
           c == Settled(mem[j], o)
           f == CommitFailed(mem[j])
<1>1. /\ up /\ mem[j] # None /\ told' = [told EXCEPT ![j] = TRUE] /\ UNCHANGED <<stop, up>>
      /\ end[j] # None \/ turn[j] \in Outcomes
      BY DEF SettleExecution
<1>2. o \in Outcomes /\ o # None BY <1>1 DEF Outcome, RegistryInv, RegistryTypeOK
<1>3. Fits(o, turn[j]) BY <1>1 DEF Outcome, EndsInv, EndInv, Fits
<1>4. turn[j] \in {o, "released"} \/ (o = "failed" /\ turn[j] = "refused") BY <1>2, <1>3 DEF Fits
<1>5. mem[j] \in JobRows /\ row[j] \in JobRows /\ row[j] # None
      BY <1>1 DEF RegistryInv, JobInv, InMemory, RegistryTypeOK
<1>6. /\ c \in JobRows /\ c.status \in TerminalStatus /\ c.origin = OriginOf[o] /\ OriginOf[o] \in Origins
      /\ f \in JobRows /\ f.status = "failed" /\ f.origin = None /\ "failed" \in TerminalStatus
  <2>1. c.origin = OriginOf[o] BY <1>5 DEF Settled, JobRows
  <2> QED BY <1>2, <1>5, <2>1, SettledJob, OriginsHaveEnds DEF TerminalStatus
<1>7. \/ /\ deferredSettlements' = [deferredSettlements EXCEPT ![j] = o] /\ end' = [end EXCEPT ![j] = None]
         /\ UNCHANGED <<mem, row, turn>>
      \/ /\ end' = [end EXCEPT ![j] = None] /\ turn' = Acknowledged(turn, mem, {j})
         /\ UNCHANGED <<mem, row, deferredSettlements>>
      \/ /\ Accepts(row[j], c)
         /\ mem' = [mem EXCEPT ![j] = c] /\ row' = [row EXCEPT ![j] = Upserted(@, c)]
         /\ end' = [end EXCEPT ![j] = None]
         /\ turn' = Acknowledged(turn, mem', {j}) /\ UNCHANGED deferredSettlements
      \/ end' = [end EXCEPT ![j] = o] /\ UNCHANGED <<mem, row, deferredSettlements, turn>>
      \/ /\ end' = [end EXCEPT ![j] = None] /\ UNCHANGED <<deferredSettlements, turn>>
         /\ mem' = [mem EXCEPT ![j] = f] /\ row' = [row EXCEPT ![j] = Upserted(@, mem'[j])]
      \/ end' = [end EXCEPT ![j] = None] /\ UNCHANGED <<mem, row, deferredSettlements, turn>>
      BY DEF SettleExecution
<1> HIDE DEF o, c, f
<1>8. /\ Fits(end'[j], turn[j]) /\ Fits(deferredSettlements'[j], turn[j])
      /\ \A k \in Jobs \ {j} : end'[k] = end[k] /\ deferredSettlements'[k] = deferredSettlements[k]
      BY <1>3, <1>7, FitsNone DEF EndsInv, EndInv, RegistryInv, RegistryTypeOK
<1>9. \A k \in Jobs : TurnMoves(k) BY <1>7, ForgottenTurns DEF TurnMoves
<1>10. \A k \in Jobs \ {j} : turn'[k] = turn[k] \/ (turn[k] \in Outcomes /\ turn'[k] = "released")
       BY <1>7, ForgottenTurns
<1>11. \A k \in Jobs \ {j} : EndRest(k)' = EndRest(k)
       BY <1>1, <1>7, <1>8 DEF EndRest, RegistryInv, RegistryTypeOK
<1>12. \A k \in Jobs \ {j} : Onward(k) BY <1>9, <1>11, EndFrame DEF EndsInv
<1>13. EndInv(j) /\ (end'[j] = None \/ up') BY <1>1 DEF EndsInv
<1>14. CASE UNCHANGED <<mem, row>>
  <2>1. /\ Is(row', j, TerminalStatus) <=> Is(row, j, TerminalStatus)
        /\ Is(mem', j, ActiveStatus) <=> Is(mem, j, ActiveStatus)
        /\ row'[j] = row[j] /\ stop'[j] = stop[j]
        BY <1>1, <1>14 DEF Is
  <2>2. Onward(j) BY <1>1, <1>8, <1>9, <1>13, <2>1, EndRests
  <2> QED BY <1>12, <2>2 DEF EveryOnward
\* The outcome is committed: its origin is the turn's own.
<1>15. CASE /\ Accepts(row[j], c) /\ mem' = [mem EXCEPT ![j] = c] /\ row' = [row EXCEPT ![j] = Upserted(@, c)]
            /\ turn' = Acknowledged(turn, mem', {j})
  <2>1. ~Ends(row[j], c) BY <1>6, StatusIsOne DEF Ends
  <2>2. /\ Upserted(row[j], c) \in JobRows /\ Upserted(row[j], c).status = c.status
        /\ Upserted(row[j], c).origin = OriginOf[o]
        BY <1>5, <1>6, <1>15, <2>1, AcceptedRow
  <2>3. mem'[j] = c /\ row'[j] = Upserted(row[j], c) BY <1>15 DEF RegistryInv, RegistryTypeOK
  <2>4. turn'[j] \in {turn[j], "released"} BY <1>15, ForgottenTurns
  <2>5. turn'[j] \in EndsAs(row'[j].origin) BY <1>2, <1>4, <1>6, <2>2, <2>3, <2>4, EndsOf
  <2>6. Is(row', j, TerminalStatus) /\ Is(mem', j, TerminalStatus) BY <1>6, <2>2, <2>3 DEF Is
  <2>7. Onward(j) BY <1>1, <1>8, <1>9, <1>13, <2>5, <2>6, EndComes
  <2> QED BY <1>12, <2>7 DEF EveryOnward
\* The outcome could not be committed, and the failure could.
<1>16. CASE /\ UNCHANGED turn /\ mem' = [mem EXCEPT ![j] = f] /\ row' = [row EXCEPT ![j] = Upserted(@, mem'[j])]
  <2>1. row[j].status \in ActiveStatus => row[j].origin = None
        BY <1>5 DEF RegistryInv, JobInv, ActiveIsOpen, Is
  <2>2. /\ Upserted(row[j], f) \in JobRows /\ Upserted(row[j], f).status \in TerminalStatus
        BY <1>5, <1>6, <2>1, FailureIsTaken
  <2>3. mem'[j] = f /\ row'[j] = Upserted(row[j], f) BY <1>16 DEF RegistryInv, RegistryTypeOK
  <2>4. row'[j].origin = row[j].origin BY <1>5, <1>6, <2>3, UpsertedRow
  <2>5. turn'[j] \in EndsAs(row'[j].origin)
    <3>1. CASE row[j].status \in TerminalStatus BY <1>5, <1>13, <1>16, <2>4, <3>1 DEF EndInv, Is
    <3>2. CASE row[j].status \in ActiveStatus
      <4>1. turn[j] \in Turns \ {"running"}
            BY <1>2, <1>4 DEF RegistryInv, RegistryTypeOK, Outcomes
      <4> QED BY <1>16, <2>1, <2>4, <3>2, <4>1, EndsOf
    <3> QED BY <1>5, <3>1, <3>2 DEF JobRows
  <2>6. Is(row', j, TerminalStatus) /\ Is(mem', j, TerminalStatus) BY <1>6, <2>2, <2>3 DEF Is
  <2>7. Onward(j) BY <1>1, <1>8, <1>9, <1>13, <2>5, <2>6, EndComes
  <2> QED BY <1>12, <2>7 DEF EveryOnward
<1> QED BY <1>7, <1>14, <1>15, <1>16

--------------------------------------------------------------------------
(* Stops, and the end they give *)

\* A stop begins, or its transaction is rolled back: its Job has not ended.
LEMMA EndTerminates ==
    ASSUME RegistryInv, RegistryInv', EndsInv, NEW j \in Jobs, NEW n \in Nat, up, Is(mem, j, ActiveStatus),
           turn[j] = "running", mem' = [mem EXCEPT ![j] = Terminating(@, n)],
           row' = [row EXCEPT ![j] = row'[j]], row'[j] \in {row[j], Upserted(row[j], mem'[j])},
           \A k \in Jobs \ {j} : stop'[k] = stop[k],
           UNCHANGED <<end, deferredSettlements, turn, told, up>>
    PROVE  EveryOnward
<1> USE NoneIsNothing
<1> DEFINE c == Terminating(mem[j], n)
<1>1. mem[j] \in JobRows /\ mem[j] # None BY DEF Is, RegistryInv, RegistryTypeOK
<1>2. c \in JobRows /\ c.status = "terminating" BY <1>1 DEF Terminating, JobRows, ActiveStatus, Live
<1>3. mem'[j] = c /\ \A k \in Jobs \ {j} : mem'[k] = mem[k] BY DEF RegistryInv, RegistryTypeOK
<1> HIDE DEF c
<1>4. mem'[j] \in JobRows /\ mem'[j].status \in ActiveStatus BY <1>2, <1>3 DEF ActiveStatus
<1>5. \A k \in Jobs : TurnMoves(k) BY DEF TurnMoves
<1>6. Fits(end'[j], turn[j]) /\ Fits(deferredSettlements'[j], turn[j]) /\ EndInv(j) BY DEF EndsInv, EndInv
<1>7. Onward(j) BY <1>1, <1>4, <1>5, <1>6, ActiveOnward
<1>8. \A k \in Jobs \ {j} : row'[k] = row[k]
  <2> DEFINE r == row'[j]
  <2>1. row' = [row EXCEPT ![j] = r] OBVIOUS
  <2> HIDE DEF r
  <2> QED BY <2>1 DEF RegistryInv, RegistryTypeOK
<1>9. \A k \in Jobs \ {j} : EndRest(k)' = EndRest(k) BY <1>3, <1>8 DEF EndRest
<1> QED BY <1>5, <1>7, <1>9, EndFrame DEF EndsInv, EveryOnward

LEMMA EndStops ==
    ASSUME RegistryInv, RegistryInv', EndsInv, NEW j \in Jobs, NEW n \in Nat, NEW only, NEW list, NEW later,
           NEW peers, NEW lost, up, Is(mem, j, ActiveStatus), MayStop(j, n, list, peers),
           StopBegins(j, n, only, list, peers, lost) \/ StopNeverBegins(j, n, later),
           UNCHANGED <<end, deferredSettlements, turn, told, up>>
    PROVE  EveryOnward
<1>1. turn[j] = "running" BY DEF MayStop, OriginalControl, Is
<1>2. mem' = [mem EXCEPT ![j] = Terminating(@, n)] BY DEF StopBegins, StopNeverBegins
<1>3. row' = [row EXCEPT ![j] = row'[j]] /\ row'[j] \in {row[j], Upserted(row[j], mem'[j])}
  <2>1. row = [p \in Jobs |-> row[p]] BY DEF RegistryInv, RegistryTypeOK
  <2>2. CASE StopBegins(j, n, only, list, peers, lost)
    <3>1. row' = [p \in Jobs |-> IF p \in {j} \ lost THEN Upserted(row[p], mem'[p]) ELSE row[p]]
          BY <2>2 DEF StopBegins, RecordChange
    <3> QED BY <2>1, <3>1
  <2>3. CASE StopNeverBegins(j, n, later)
    <3>1. row' = row BY <2>3 DEF StopNeverBegins
    <3> QED BY <2>1, <3>1
  <2> QED BY <2>2, <2>3
<1>4. \A k \in Jobs \ {j} : stop'[k] = stop[k] BY DEF StopBegins, StopNeverBegins, RegistryInv, RegistryTypeOK
<1> QED BY <1>1, <1>2, <1>3, <1>4, EndTerminates

LEMMA EndCancels ==
    ASSUME RegistryInv, RegistryInv', EndsInv, NEW j \in Jobs, NEW n \in 1 .. MaxStops, NEW only \in BOOLEAN,
           NEW ok \in BOOLEAN, CancelJob(j, n, only, ok)
    PROVE  EveryOnward
<1> DEFINE peers == IF only THEN {} ELSE Peers(j)
           failed == [intents EXCEPT ![j] = Marked(@, n, "failed")]
<1>1. up /\ mem[j] # None /\ n \in Nat /\ UNCHANGED <<end, deferredSettlements, turn, told, up>> BY DEF CancelJob
<1>2. \/ /\ mem[j].status \in ActiveStatus /\ MayStop(j, n, intents, peers)
         /\ \E lost \in SUBSET {j} : StopBegins(j, n, only, intents, peers, lost)
      \/ mem[j].status \in ActiveStatus /\ MayStop(j, n, intents, peers) /\ StopNeverBegins(j, n, failed)
      \/ UNCHANGED <<mem, row, stop>>
      BY DEF CancelJob
<1> HIDE DEF peers, failed
<1>3. ASSUME NEW lost, mem[j].status \in ActiveStatus, MayStop(j, n, intents, peers),
             StopBegins(j, n, only, intents, peers, lost) \/ StopNeverBegins(j, n, failed)
      PROVE  EveryOnward
      BY <1>1, <1>3, EndStops DEF Is
<1>4. CASE UNCHANGED <<mem, row, stop>>
  <2>1. \A k \in Jobs : TurnMoves(k) BY <1>1 DEF TurnMoves
  <2> QED BY <1>1, <1>4, <2>1, EndTurns
<1> QED BY <1>2, <1>3, <1>4

LEMMA EndArchives ==
    ASSUME RegistryInv, RegistryInv', EndsInv, NEW j \in Jobs, NEW ok \in BOOLEAN, StopForProjectArchive(j, ok)
    PROVE  EveryOnward
<1> USE NoneIsNothing
<1> DEFINE list == [intents EXCEPT ![j] = Append(@, NewIntent)]
           n == Len(list[j])
           peers == Peers(j)
<1>1. /\ up /\ Is(mem, j, ActiveStatus) /\ stop[j] = None
      /\ UNCHANGED <<end, deferredSettlements, turn, told, up>>
      /\ \/ /\ Undispatched(mem[j]) /\ mem' = [mem EXCEPT ![j] = Stopped(j, j, n)]
            /\ RecordChange({j}, {}) /\ UNCHANGED stop
         \/ MayStop(j, n, list, peers) /\ \E lost \in SUBSET {j} : StopBegins(j, n, FALSE, list, peers, lost)
         \/ MayStop(j, n, list, peers) /\ StopNeverBegins(j, n, list)
         \/ UNCHANGED <<mem, row, stop>>
      BY DEF StopForProjectArchive
<1>2. n \in Nat BY RecordedList DEF RegistryInv
<1> HIDE DEF list, n, peers
<1>3. ASSUME NEW lost, MayStop(j, n, list, peers),
             StopBegins(j, n, FALSE, list, peers, lost) \/ StopNeverBegins(j, n, list)
      PROVE  EveryOnward
      BY <1>1, <1>2, <1>3, EndStops
<1>4. \A k \in Jobs : TurnMoves(k) BY <1>1 DEF TurnMoves
<1>5. CASE UNCHANGED <<mem, row, stop>> BY <1>1, <1>4, <1>5, EndTurns
<1>6. CASE /\ Undispatched(mem[j]) /\ mem' = [mem EXCEPT ![j] = Stopped(j, j, n)]
           /\ RecordChange({j}, {}) /\ UNCHANGED stop
  <2>1. turn[j] \in Turns \ {"running"} /\ mem[j] # None /\ mem[j] \in JobRows
        BY <1>1, <1>6 DEF RegistryInv, RegistryTypeOK, JobInv, RunningIsDispatched, Undispatched, Is
  <2>2. /\ mem'[j] = Stopped(j, j, n) /\ row'[j] = Upserted(row[j], mem'[j])
        /\ \A k \in Jobs \ {j} : mem'[k] = mem[k] /\ row'[k] = row[k]
        BY <1>6 DEF RecordChange, RegistryInv, RegistryTypeOK
  <2>3. /\ mem'[j] \in JobRows /\ row'[j] \in JobRows /\ row'[j].status \in TerminalStatus
        /\ mem'[j].status \in TerminalStatus /\ row'[j].origin = "explicit-cancellation"
    <3>1. row[j] \in JobRows \cup {None} BY DEF RegistryInv, RegistryTypeOK
    <3> QED BY <1>2, <2>1, <2>2, <3>1, StoppedJob
  <2>4. Is(row', j, TerminalStatus) /\ Is(mem', j, TerminalStatus) BY <2>3 DEF Is
  <2>5. turn'[j] \in EndsAs(row'[j].origin) BY <1>1, <2>1, <2>3, EndsOf
  <2>6. Fits(end'[j], turn[j]) /\ Fits(deferredSettlements'[j], turn[j]) /\ EndInv(j)
        BY <1>1 DEF EndsInv, EndInv
  <2>7. stop'[j] \in {stop[j], None} BY <1>6
  <2>8. Onward(j) BY <1>1, <1>4, <2>4, <2>5, <2>6, <2>7, EndComes
  <2>9. \A k \in Jobs \ {j} : EndRest(k)' = EndRest(k) BY <1>1, <1>6, <2>2 DEF EndRest
  <2> QED BY <1>4, <2>8, <2>9, EndFrame DEF EndsInv, EveryOnward
<1> QED BY <1>1, <1>3, <1>5, <1>6

\* What an answer leaves to a Job of its outcomes is its own, or nothing.
LEMMA EndLeft ==
    ASSUME EndsInv, NEW p \in Jobs, end'[p] \in {None, end[p], deferredSettlements[p]},
           deferredSettlements'[p] \in {None, deferredSettlements[p]}
    PROVE  Fits(end'[p], turn[p]) /\ Fits(deferredSettlements'[p], turn[p]) /\ EndInv(p)
BY FitsNone DEF EndsInv, EndInv

\* A Job that an answer changes, and that it does not end on record.
LEMMA EndAnswered ==
    ASSUME RegistryInv, RegistryInv', EndsInv, NEW p \in Jobs, up', mem[p] # None, turn[p] # "none",
           mem'[p] \in JobRows,
           \/ row'[p] = row[p]
           \/ mem'[p].status \in ActiveStatus /\ row'[p] \in {row[p], Upserted(row[p], mem'[p])},
           TurnMoves(p), end'[p] \in {None, end[p], deferredSettlements[p]},
           deferredSettlements'[p] \in {None, deferredSettlements[p]}
    PROVE  Onward(p)
<1>1. Fits(end'[p], turn[p]) /\ Fits(deferredSettlements'[p], turn[p]) /\ EndInv(p) BY EndLeft
<1>2. CASE row'[p] = row[p]
  <2>1. Is(row', p, TerminalStatus) <=> Is(row, p, TerminalStatus) BY <1>2 DEF Is
  <2> QED BY <1>1, <1>2, <2>1, EndRests
<1>3. CASE mem'[p].status \in ActiveStatus /\ row'[p] \in {row[p], Upserted(row[p], mem'[p])}
      BY <1>1, <1>3, ActiveOnward
<1> QED BY <1>2, <1>3

\* A Job that no answer concerns: only its turn may have ended.
LEMMA EndAside ==
    ASSUME RegistryInv, RegistryInv', EndsInv, NEW p \in Jobs, up', mem'[p] = mem[p], row'[p] = row[p],
           stop'[p] \in {stop[p], None}, TurnMoves(p), end'[p] \in {None, end[p], deferredSettlements[p]},
           deferredSettlements'[p] \in {None, deferredSettlements[p]}
    PROVE  Onward(p)
<1> USE NoneIsNothing
<1>1. Fits(end'[p], turn[p]) /\ Fits(deferredSettlements'[p], turn[p]) /\ EndInv(p) BY EndLeft
<1>2. /\ Is(row', p, TerminalStatus) <=> Is(row, p, TerminalStatus)
      /\ Is(mem', p, ActiveStatus) <=> Is(mem, p, ActiveStatus)
      BY DEF Is
<1> QED BY <1>1, <1>2, EndRests

\* The turns of an answer, acknowledged or not, move as turns do.
LEMMA AnswersMove ==
    ASSUME RegistryInv, NEW j \in Jobs, stop[j] # None, NEW a \in Answers(j), NEW m, NEW js,
           turn' = a.left \/ turn' = Acknowledged(a.left, m, js)
    PROVE  \A k \in Jobs : TurnMoves(k)
<1>1. \A k \in Jobs : a.left[k] = turn[k] \/ (turn[k] = "running" /\ a.left[k] \in Outcomes)
  <2>1. DOMAIN stop[j].peers \subseteq Jobs \ {j} BY StopNames
  <2>2. turn \in [Jobs -> Turns] BY DEF RegistryInv, RegistryTypeOK
  <2> QED BY <2>1, <2>2, AnswersLeave
<1>2. \A k \in Jobs : turn'[k] = a.left[k] \/ (a.left[k] \in Outcomes /\ turn'[k] = "released")
      BY ForgottenTurns
<1> QED BY <1>1, <1>2 DEF TurnMoves

\* A confirmed stop ends its target and the Jobs that its worker took along.
LEMMA EndIsConfirmed ==
    ASSUME RegistryInv, RegistryInv', EndsInv, NEW j \in Jobs, up, stop[j] # None, NEW a \in Answers(j),
           Confirmed(a), NEW lost, StopReturns(j, a, lost), UNCHANGED <<told, up>>
    PROVE  EveryOnward
<1> USE NoneIsNothing
<1> DEFINE hit == Affected(j, a)
           names == Names(stop[j], j)
<1>1. /\ mem' = [p \in Jobs |-> IF p \in hit THEN AnswerGives(j, a, p) ELSE mem[p]]
      /\ row' = [p \in Jobs |-> IF p \in hit \ lost THEN Upserted(row[p], mem'[p]) ELSE row[p]]
      /\ stop' = [stop EXCEPT ![j] = None]
      /\ deferredSettlements' = [p \in Jobs |-> IF p \in hit THEN None ELSE deferredSettlements[p]]
      /\ turn' = Acknowledged(a.left, mem', hit) /\ UNCHANGED end
      BY DEF StopReturns, Answered, RecordChange, Undeferred
<1>2. \A k \in Jobs : TurnMoves(k)
  <2> DEFINE m == mem'
  <2>1. turn' = Acknowledged(a.left, m, hit) BY <1>1
  <2> HIDE DEF m, hit
  <2> QED BY <2>1, AnswersMove
<1>3. \A p \in hit :
         /\ p \in Jobs /\ mem[p] # None /\ turn[p] # "none" /\ names[p] \in Nat
         /\ AnswerGives(j, a, p) = Stopped(p, j, names[p]) /\ AnswerGives(j, a, p) \in JobRows
  <2>1. hit \subseteq DOMAIN names
    <3>1. turn \in [Jobs -> Turns] BY DEF RegistryInv, RegistryTypeOK
    <3>2. DOMAIN stop[j].peers \subseteq Jobs \ {j} BY StopNames
    <3> QED BY <3>1, <3>2, AnswersLeave
  <2> QED BY <2>1, AnsweredJob, StopNames
<1>4. \A p \in hit : turn'[p] \in Turns \ {"none", "running"}
  <2>1. turn' \in [Jobs -> Turns] /\ \A p \in hit : turn'[p] \notin {"none", "running"} BY <1>1, AcknowledgedLeft
  <2> QED BY <1>3, <2>1
<1> HIDE DEF hit, names
<1>5. \A p \in Jobs : /\ end'[p] \in {None, end[p], deferredSettlements[p]}
                      /\ deferredSettlements'[p] \in {None, deferredSettlements[p]}
                      /\ stop'[p] \in {stop[p], None}
      BY <1>1 DEF RegistryInv, RegistryTypeOK
<1>6. ASSUME NEW p \in hit PROVE Onward(p)
  <2>1. /\ p \in Jobs /\ mem'[p] = Stopped(p, j, names[p]) /\ mem'[p] \in JobRows
        /\ row'[p] = row[p] \/ row'[p] = Upserted(row[p], Stopped(p, j, names[p]))
        BY <1>1, <1>3
  <2>2. CASE row'[p] = row[p] BY <1>2, <1>3, <1>5, <2>1, <2>2, EndAnswered
  <2>3. CASE row'[p] = Upserted(row[p], Stopped(p, j, names[p]))
    <3>1. /\ mem'[p].status \in TerminalStatus /\ row'[p] \in JobRows /\ row'[p].status \in TerminalStatus
          /\ row'[p].origin \in {"explicit-cancellation", "assignment-containment"}
      <4>1. mem[p] \in JobRows /\ row[p] \in JobRows \cup {None} BY <1>3, <2>1 DEF RegistryInv, RegistryTypeOK
      <4> QED BY <1>3, <2>1, <2>3, <4>1, StoppedJob
    <3>2. Is(row', p, TerminalStatus) /\ Is(mem', p, TerminalStatus) BY <2>1, <3>1 DEF Is
    <3>3. turn'[p] \in EndsAs(row'[p].origin) BY <1>4, <3>1, EndsOf
    <3>4. Fits(end'[p], turn[p]) /\ Fits(deferredSettlements'[p], turn[p]) /\ EndInv(p) BY <1>5, <2>1, EndLeft
    <3> QED BY <1>2, <1>5, <2>1, <3>2, <3>3, <3>4, EndComes
  <2> QED BY <2>1, <2>2, <2>3
<1>7. ASSUME NEW p \in Jobs \ hit PROVE Onward(p)
  <2>1. mem'[p] = mem[p] /\ row'[p] = row[p] BY <1>1
  <2> QED BY <1>2, <1>5, <2>1, EndAside
<1> QED BY <1>6, <1>7 DEF EveryOnward

\* A stop that came too late: no end comes of it.
LEMMA EndIsTooLate ==
    ASSUME RegistryInv, RegistryInv', EndsInv, NEW j \in Jobs, up, stop[j] # None, NEW a \in Answers(j),
           ~Confirmed(a), a.kind # "unconfirmed", NEW lost, StopReturns(j, a, lost), UNCHANGED <<told, up>>
    PROVE  EveryOnward
<1> USE NoneIsNothing
<1>1. Affected(j, a) = {j}
  <2>1. DOMAIN stop[j].peers \subseteq Jobs \ {j} /\ turn \in [Jobs -> Turns]
        BY StopNames DEF RegistryInv, RegistryTypeOK
  <2> QED BY <2>1, AnswersLeave
<1>2. /\ mem' = [p \in Jobs |-> IF p \in {j} THEN AnswerGives(j, a, p) ELSE mem[p]]
      /\ row' = [p \in Jobs |-> IF p \in {j} \ lost THEN Upserted(row[p], mem'[p]) ELSE row[p]]
      /\ stop' = [stop EXCEPT ![j] = None] /\ Flushed(j, deferredSettlements)
      BY <1>1 DEF StopReturns, Answered, RecordChange
<1>3. \A k \in Jobs : TurnMoves(k)
  <2> DEFINE m == mem'
             hit == Affected(j, a)
  <2>1. turn' = Acknowledged(a.left, m, hit) BY DEF StopReturns
  <2> HIDE DEF m, hit
  <2> QED BY <2>1, AnswersMove
<1>4. AnswerGives(j, a, j) \in JobRows /\ AnswerGives(j, a, j).status \in ActiveStatus BY <1>1, AnsweredJob
<1>5. mem'[j] = AnswerGives(j, a, j) /\ row'[j] \in {row[j], Upserted(row[j], mem'[j])}
      BY <1>2
<1>6. \A p \in Jobs : /\ end'[p] \in {None, end[p], deferredSettlements[p]}
                      /\ deferredSettlements'[p] \in {None, deferredSettlements[p]}
                      /\ stop'[p] \in {stop[p], None}
      BY <1>2 DEF Flushed, Coalesce, RegistryInv, RegistryTypeOK
<1>7. mem[j] # None /\ turn[j] # "none" BY StopNames
<1>8. Onward(j) BY <1>3, <1>4, <1>5, <1>6, <1>7, EndAnswered
<1>9. ASSUME NEW p \in Jobs \ {j} PROVE Onward(p)
  <2>1. mem'[p] = mem[p] /\ row'[p] = row[p] BY <1>2
  <2> QED BY <1>3, <1>6, <2>1, EndAside
<1> QED BY <1>8, <1>9 DEF EveryOnward

\* A stop that failed: it ends no Job on record.
LEMMA EndFails ==
    ASSUME RegistryInv, RegistryInv', EndsInv, NEW j \in Jobs, up, stop[j] # None, NEW a \in Answers(j),
           turn' = a.left, NEW done \in SUBSET Affected(j, a), NEW failed \in SUBSET {j}, NEW lost,
           \/ failed = {j} /\ StopFails(j, a, done, lost)
           \/ StopForgotten(j, a, done, failed),
           UNCHANGED <<told, up>>
    PROVE  EveryOnward
<1> USE NoneIsNothing
<1>1. mem' = FailedMemory(j, a, done, failed) /\ stop' = [stop EXCEPT ![j] = None]
      BY DEF StopFails, StopForgotten, FailedMemory, Answered
<1>2. \A p \in Jobs : row'[p] = row[p] \/ (p = j /\ j \in failed /\ row'[p] = Upserted(row[p], mem'[p]))
      BY DEF StopFails, StopForgotten, RecordChange, RegistryInv, RegistryTypeOK
<1>3. \A p \in Jobs : /\ end'[p] \in {None, end[p], deferredSettlements[p]}
                      /\ deferredSettlements'[p] \in {None, deferredSettlements[p]}
  <2> DEFINE left == Undeferred(a, done)
  <2>1. left \in [Jobs -> Outcomes \cup {None}] /\ \A p \in Jobs : left[p] \in {None, deferredSettlements[p]}
        BY DEF Undeferred, RegistryInv, RegistryTypeOK
  <2>2. Flushed(j, left) \/ (deferredSettlements' = left /\ UNCHANGED end) BY DEF StopFails, StopForgotten
  <2> HIDE DEF left
  <2>3. CASE Flushed(j, left)
    <3>1. /\ \A k \in Jobs \ {j} : end'[k] = end[k] /\ deferredSettlements'[k] = left[k]
          /\ deferredSettlements'[j] = None
          /\ end'[j] = IF left[j] = None THEN end[j] ELSE left[j]
          BY <2>1, <2>3, FlushedOutcome DEF RegistryInv
    <3> QED BY <2>1, <3>1
  <2> QED BY <2>1, <2>2, <2>3
<1>4. \A k \in Jobs : TurnMoves(k) BY AnswersMove
<1>5. \A p \in Jobs : stop'[p] \in {stop[p], None} BY <1>1 DEF RegistryInv, RegistryTypeOK
<1>6. ASSUME NEW p \in done \cup failed
      PROVE  /\ p \in Jobs /\ mem[p] # None /\ turn[p] # "none"
             /\ mem'[p] \in JobRows /\ (p \in failed => mem'[p].status \in ActiveStatus)
  <2>1. p \in DOMAIN Names(stop[j], j)
    <3>1. DOMAIN stop[j].peers \subseteq Jobs \ {j} /\ j \in DOMAIN Names(stop[j], j) /\ turn \in [Jobs -> Turns]
          BY StopNames DEF RegistryInv, RegistryTypeOK
    <3> QED BY <3>1, AnswersLeave
  <2>2. p \in Jobs /\ mem[p] # None /\ turn[p] # "none" BY <2>1, StopNames
  <2>3. mem[p] \in JobRows BY <2>2 DEF RegistryInv, RegistryTypeOK
  <2>4. p \in done => AnswerGives(j, a, p) \in JobRows BY AnsweredJob
  <2> DEFINE y == IF p \in done THEN AnswerGives(j, a, p) ELSE mem[p]
  <2>5. y \in JobRows BY <2>3, <2>4
  <2>6. mem'[p] = IF p \in failed THEN [y EXCEPT !.status = "termination-failed"] ELSE y
        BY <1>1, <2>2 DEF FailedMemory, Answered
  <2> HIDE DEF y
  <2>7. /\ [y EXCEPT !.status = "termination-failed"] \in JobRows
        /\ [y EXCEPT !.status = "termination-failed"].status \in ActiveStatus
        BY <2>5 DEF JobRows, ActiveStatus, Live
  <2> QED BY <2>2, <2>5, <2>6, <2>7
<1>7. ASSUME NEW p \in done \cup failed PROVE Onward(p)
  <2>1. \/ row'[p] = row[p]
        \/ mem'[p].status \in ActiveStatus /\ row'[p] \in {row[p], Upserted(row[p], mem'[p])}
        BY <1>2, <1>6
  <2> QED BY <1>3, <1>4, <1>6, <2>1, EndAnswered
<1>8. ASSUME NEW p \in Jobs, p \notin done \cup failed PROVE Onward(p)
  <2>1. mem'[p] = mem[p] /\ row'[p] = row[p] BY <1>1, <1>2, <1>8 DEF FailedMemory, Answered
  <2> QED BY <1>3, <1>4, <1>5, <2>1, EndAside
<1> QED BY <1>7, <1>8 DEF EveryOnward

LEMMA EndIsForced ==
    ASSUME RegistryInv, RegistryInv', EndsInv, NEW j \in Jobs, ForceTerminateJob(j)
    PROVE  EveryOnward
<1>1. up /\ stop[j] # None /\ UNCHANGED <<told, up>> BY DEF ForceTerminateJob
<1>2. PICK a \in Answers(j) :
         \/ a.kind # "unconfirmed" /\ \E lost \in SUBSET Affected(j, a) : StopReturns(j, a, lost)
         \/ /\ turn' = a.left
            /\ \E done \in SUBSET Affected(j, a), last \in SUBSET {j} :
                  StopFails(j, a, done, last) \/ StopForgotten(j, a, done, last)
      BY DEF ForceTerminateJob
<1>3. ASSUME a.kind # "unconfirmed", NEW lost, StopReturns(j, a, lost) PROVE EveryOnward
      BY <1>1, <1>3, EndIsTooLate, EndIsConfirmed
<1>4. ASSUME turn' = a.left, NEW done \in SUBSET Affected(j, a), NEW last \in SUBSET {j},
             StopFails(j, a, done, last)
      PROVE  EveryOnward
  <2> DEFINE failed == {j}
  <2>1. failed = {j} /\ failed \in SUBSET {j} OBVIOUS
  <2> HIDE DEF failed
  <2> QED BY <1>1, <1>4, <2>1, EndFails
<1>5. ASSUME turn' = a.left, NEW done \in SUBSET Affected(j, a), NEW last \in SUBSET {j},
             StopForgotten(j, a, done, last)
      PROVE  EveryOnward
      BY <1>1, <1>5, EndFails
<1> QED BY <1>2, <1>3, <1>4, <1>5

--------------------------------------------------------------------------
(* The crash and the restart, and every step *)

LEMMA EndCrashes == ASSUME RegistryInv, RegistryInv', EndsInv, BridgeCrash PROVE EveryOnward
<1> USE NoneIsNothing
<1>1. /\ up' = FALSE /\ mem' = [j \in Jobs |-> None] /\ stop' = [j \in Jobs |-> None]
      /\ end' = [j \in Jobs |-> None] /\ deferredSettlements' = [j \in Jobs |-> None] /\ UNCHANGED row
      /\ turn' = [j \in Jobs |-> IF j \in Receipted \/ turn[j] = "none" THEN turn[j] ELSE "gone"]
      BY DEF BridgeCrash
<1> SUFFICES ASSUME NEW j \in Jobs PROVE Onward(j) BY DEF EveryOnward
<1>2. turn'[j] \in {turn[j], "gone"} /\ mem'[j] = None /\ stop'[j] = None /\ end'[j] = None
      /\ deferredSettlements'[j] = None /\ row'[j] = row[j]
      BY <1>1
<1>3. Is(row, j, TerminalStatus) => turn'[j] \in EndsAs(row[j].origin)
  <2> SUFFICES ASSUME Is(row, j, TerminalStatus) PROVE turn'[j] \in EndsAs(row[j].origin) OBVIOUS
  <2>1. row[j].origin \in Origins \cup {None} BY DEF Is, RegistryInv, RegistryTypeOK, JobRows
  <2> QED BY <1>2, <2>1, EndsOf DEF EndsInv, EndInv
<1> QED BY <1>2, <1>3, FitsNone DEF EndInv, Onward, Is

LEMMA EndRestarts == ASSUME RegistryInv, RegistryInv', EndsInv, BridgeRestart PROVE EveryOnward
<1> USE NoneIsNothing
<1> DEFINE active == {j \in Jobs : Is(row, j, ActiveStatus)}
           again(j) == [row[j] EXCEPT !.connected = FALSE,
                                      !.status = IF @ = "terminating" THEN "termination-failed" ELSE @]
<1>1. /\ ~up /\ up' = TRUE /\ UNCHANGED <<stop, end, deferredSettlements>>
      /\ mem' = [j \in Jobs |-> IF j \in active \cap Receipted THEN again(j)
                                ELSE IF j \in active THEN Reloaded(row[j]) ELSE row[j]]
      /\ row' = [j \in Jobs |-> IF j \in active \ Receipted THEN Upserted(row[j], mem'[j]) ELSE row[j]]
      /\ turn' = [j \in Jobs |->
            IF j \in active \cap Receipted /\ turn[j] \in {"none", "refused", "released"} THEN "lost" ELSE turn[j]]
      BY DEF BridgeRestart
<1> SUFFICES ASSUME NEW j \in Jobs PROVE Onward(j) BY DEF EveryOnward
<1>2. /\ stop'[j] = None /\ end'[j] = None /\ deferredSettlements'[j] = None
      BY <1>1 DEF EndsInv, EndInv, RegistryInv, JobInv, InMemory, ToldIsOver
<1>3. Fits(end'[j], turn'[j]) /\ Fits(deferredSettlements'[j], turn'[j]) BY <1>2, FitsNone
<1>4. j \notin active \cap Receipted => turn'[j] = turn[j] BY <1>1
\* It is subscribed again, or answered as lost.
<1>5. CASE j \in active \cap Receipted
  <2>1. row'[j] = row[j] /\ ~Is(row, j, TerminalStatus) BY <1>1, <1>5, StatusIsOne DEF Is
  <2>2. ~Is(row', j, TerminalStatus) BY <2>1 DEF Is
  <2> HIDE DEF active
  <2> QED BY <1>1, <1>2, <1>3, <2>1, <2>2 DEF EndInv, Onward, Is
\* It died with the bridge: its turn may have begun, or had not.
<1>6. CASE j \in active \ Receipted
  <2>1. /\ row[j] \in JobRows /\ row[j] # None /\ row[j].status \in ActiveStatus /\ row[j].origin = None
        /\ mem'[j] = Reloaded(row[j]) /\ row'[j] = Upserted(row[j], Reloaded(row[j])) /\ turn'[j] = turn[j]
        BY <1>1, <1>6 DEF RegistryInv, RegistryTypeOK, JobInv, ActiveIsOpen, Is
  <2> HIDE DEF active
  <2>2. /\ mem'[j] \in JobRows /\ row'[j] \in JobRows /\ row'[j].status = mem'[j].status
        /\ row[j].dispatched => mem'[j].status \in ActiveStatus
        /\ ~row[j].dispatched => mem'[j].status = "interrupted" /\ row'[j].origin = "bridge-restart"
        BY <2>1, ReloadedRow
  <2>3. ~Is(row, j, TerminalStatus) /\ (Is(mem', j, ActiveStatus) => ~Is(row', j, TerminalStatus))
        BY <2>1, <2>2, StatusIsOne DEF Is
  <2>4. Is(row', j, TerminalStatus) => turn'[j] \in EndsAs(row'[j].origin)
    <3>1. CASE row[j].dispatched BY <2>2, <3>1, StatusIsOne DEF Is
    <3>2. CASE ~row[j].dispatched
      <4>1. turn[j] \in Turns \ {"running"}
            BY <2>1, <3>2 DEF RegistryInv, RegistryTypeOK, JobInv, RunningIsDispatched, Is
      <4>2. turn'[j] \in Turns \ {"running"} BY <2>1, <4>1
      <4> QED BY <2>2, <3>2, <4>2, EndsOf
    <3> QED BY <3>1, <3>2
  <2> QED BY <1>1, <1>2, <1>3, <2>3, <2>4 DEF EndInv, Onward
\* It has ended, or was never admitted.
<1>7. CASE j \notin active
  <2>1. row'[j] = row[j] /\ mem'[j] = row[j] /\ turn'[j] = turn[j] BY <1>1, <1>7
  <2>2. ~Is(mem', j, ActiveStatus) BY <1>7, <2>1 DEF Is
  <2>3. TurnMoves(j) BY <2>1 DEF TurnMoves
  <2>4. /\ Is(row', j, TerminalStatus) <=> Is(row, j, TerminalStatus)
        /\ Fits(end'[j], turn[j]) /\ Fits(deferredSettlements'[j], turn[j])
        BY <1>2, <2>1, FitsNone DEF Is
  <2>5. EndInv(j) BY DEF EndsInv
  <2> HIDE DEF active
  <2> QED BY <1>1, <1>2, <2>1, <2>2, <2>3, <2>4, <2>5, EndRests
<1> QED BY <1>5, <1>6, <1>7

LEMMA EndsStart == RegistryInit => EndsInv
<1> SUFFICES ASSUME RegistryInit PROVE EndsInv OBVIOUS
<1> QED BY FitsNone DEF RegistryInit, EndsInv, EndInv, Is

LEMMA EndsStep == ASSUME RegistryInv, RegistryInv', EndsInv, [RegistryNext]_registryVars PROVE EveryOnward
<1>1. CASE UNCHANGED registryVars BY <1>1, EndTurns DEF registryVars, TurnMoves
<1>2. CASE ArchiveProject BY <1>2, EndTurns DEF ArchiveProject, TurnMoves
<1>3. CASE BridgeCrash BY <1>3, EndCrashes
<1>4. CASE BridgeRestart BY <1>4, EndRestarts
<1>5. CASE WorkerLost BY <1>5, EndTurns, LostMoves DEF WorkerLost, TurnMoves, Outcomes
<1>6. ASSUME NEW j \in Jobs, StartJob(j) PROVE EveryOnward BY <1>6, EndStarts
<1>7. ASSUME NEW j \in Jobs, BeginCancellationOperation(j) PROVE EveryOnward
      BY <1>7, EndTurns DEF BeginCancellationOperation, TurnMoves
<1>8. ASSUME NEW j \in Jobs, NEW o \in Results, TurnEnds(j, o) PROVE EveryOnward
  <2>1. o \in Outcomes BY RegistryAssumption DEF Outcomes
  <2>2. \A k \in Jobs : TurnMoves(k) BY <1>8, <2>1 DEF TurnEnds, TurnMoves, RegistryInv, RegistryTypeOK
  <2> QED BY <1>8, <2>2, EndTurns DEF TurnEnds
<1>9. ASSUME NEW j \in Jobs, NEW ok \in BOOLEAN, AssertJobMayExecute(j, ok) PROVE EveryOnward BY <1>9, EndAsserts
<1>10. ASSUME NEW j \in Jobs, NEW ok \in BOOLEAN, RecordWorkerAssignment(j, ok) PROVE EveryOnward
       BY <1>10, EndAssigns
<1>11. ASSUME NEW j \in Jobs, NEW ok \in BOOLEAN, NEW later \in BOOLEAN, RecordProgress(j, later, ok)
       PROVE EveryOnward
       BY <1>11, EndProgresses
<1>12. ASSUME NEW j \in Jobs, NEW ok \in BOOLEAN, PersistDeferredProgress(j, ok) PROVE EveryOnward
       BY <1>12, EndProgressesLater
<1>13. ASSUME NEW j \in Jobs, NEW ok \in BOOLEAN, SettleExecution(j, ok) PROVE EveryOnward BY <1>13, EndSettles
<1>14. ASSUME NEW j \in Jobs, NEW ok \in BOOLEAN, StopForProjectArchive(j, ok) PROVE EveryOnward
       BY <1>14, EndArchives
<1>15. ASSUME NEW j \in Jobs, NEW ok \in BOOLEAN, NEW n \in 1 .. MaxStops, NEW only \in BOOLEAN,
              CancelJob(j, n, only, ok)
       PROVE EveryOnward
       BY <1>15, EndCancels
<1>16. ASSUME NEW j \in Jobs, ForceTerminateJob(j) PROVE EveryOnward BY <1>16, EndIsForced
<1> QED BY <1>1, <1>2, <1>3, <1>4, <1>5, <1>6, <1>7, <1>8, <1>9, <1>10, <1>11, <1>12, <1>13, <1>14, <1>15, <1>16
        DEF RegistryNext

--------------------------------------------------------------------------
(* The theorems *)

LEMMA RegistryStarts == RegistryInit => RegistryInv
<1> SUFFICES ASSUME RegistryInit PROVE RegistryInv OBVIOUS
<1> USE NoneIsNothing DEF RegistryInit
<1>1. RegistryTypeOK
  <2>1. <<>> \in Seq(IntentRows) OBVIOUS
  <2> QED BY <2>1 DEF RegistryTypeOK, Turns
<1>2. \A j \in Jobs : JobInv(j)
      BY DEF JobInv, InMemory, EndedOnRecord, ActiveIsOpen, RunningIsDispatched, ToldIsOver, Kept, Is
<1>3. NamedAreOpen /\ NamedOnce /\ Proven BY DEF NamedAreOpen, NamedOnce, Proven, StopEnded
<1> QED BY <1>1, <1>2, <1>3 DEF RegistryInv

LEMMA RegistryStep == RegistryInv /\ [RegistryNext]_registryVars => RegistryInv'
<1> SUFFICES ASSUME RegistryInv, [RegistryNext]_registryVars PROVE RegistryInv' OBVIOUS
<1>1. ASSUME UNCHANGED <<mem, row, intents, stop, end, deferredSettlements, turn, told, up>> PROVE RegistryInv'
  <2>1. turn' \in [Jobs -> Turns] /\ \A k \in Jobs : TurnGoesOn(k)
        BY <1>1 DEF TurnGoesOn, RegistryInv, RegistryTypeOK
  <2> QED BY <1>1, <2>1, TurnsChange
<1>2. CASE UNCHANGED registryVars BY <1>1, <1>2 DEF registryVars
<1>3. CASE ArchiveProject BY <1>1, <1>3 DEF ArchiveProject
<1>4. CASE BridgeCrash BY <1>4, CrashStep
<1>5. CASE BridgeRestart BY <1>5, RestartStep
<1>6. CASE WorkerLost BY <1>6, WorkerLostStep
<1>7. ASSUME NEW j \in Jobs, StartJob(j) PROVE RegistryInv' BY <1>7, StartStep
<1>8. ASSUME NEW j \in Jobs, BeginCancellationOperation(j) PROVE RegistryInv' BY <1>8, BeginStep
<1>9. ASSUME NEW j \in Jobs, NEW o \in Results, TurnEnds(j, o) PROVE RegistryInv' BY <1>9, TurnEndsStep
<1>10. ASSUME NEW j \in Jobs, NEW ok \in BOOLEAN, AssertJobMayExecute(j, ok) PROVE RegistryInv'
       BY <1>10, AssertStep
<1>11. ASSUME NEW j \in Jobs, NEW ok \in BOOLEAN, RecordWorkerAssignment(j, ok) PROVE RegistryInv'
       BY <1>11, AssignmentStep
<1>12. ASSUME NEW j \in Jobs, NEW ok \in BOOLEAN, NEW later \in BOOLEAN, RecordProgress(j, later, ok)
       PROVE RegistryInv'
       BY <1>12, ProgressStep
<1>13. ASSUME NEW j \in Jobs, NEW ok \in BOOLEAN, PersistDeferredProgress(j, ok) PROVE RegistryInv'
       BY <1>13, DeferredProgressStep
<1>14. ASSUME NEW j \in Jobs, NEW ok \in BOOLEAN, SettleExecution(j, ok) PROVE RegistryInv' BY <1>14, SettleStep
<1>15. ASSUME NEW j \in Jobs, NEW ok \in BOOLEAN, StopForProjectArchive(j, ok) PROVE RegistryInv'
       BY <1>15, ArchiveStopStep
<1>16. ASSUME NEW j \in Jobs, NEW ok \in BOOLEAN, NEW n \in 1 .. MaxStops, NEW only \in BOOLEAN,
              CancelJob(j, n, only, ok)
       PROVE RegistryInv'
       BY <1>16, CancelStep
<1>17. ASSUME NEW j \in Jobs, ForceTerminateJob(j) PROVE RegistryInv' BY <1>17, ForceStep
<1> QED BY <1>2, <1>3, <1>4, <1>5, <1>6, <1>7, <1>8, <1>9, <1>10, <1>11, <1>12, <1>13, <1>14, <1>15, <1>16, <1>17
        DEF RegistryNext

\* The invariant: what memory, row, stop, turn and intents of a Job say of each
\* other, after every step of CodexJobRegistry.
THEOREM RegistryIsSound == RegistrySpec => []RegistryInv
BY RegistryStarts, RegistryStep, PTL DEF RegistrySpec

\* An outcome that the bridge was told of gives way only to a stop that its
\* worker has confirmed: otherwise its Job has ended on record, or the outcome is
\* being committed or waits for a stop, and the owner still has it
\* (settleExecution, flushDeferredSettlement, acknowledgeSettledExecution).
THEOREM NoOutcomeDropped == RegistrySpec => []OutcomeIsKept
<1>1. RegistryInv => OutcomeIsKept BY DEF RegistryInv, JobInv, Kept, OutcomeIsKept
<1> QED BY <1>1, RegistryIsSound, PTL

\* A stop that is on record as succeeded has left no turn that goes on or begins
\* later, even where recordChange could not write the Job's row; and a row that
\* a stop ended names the succeeded intent (forceTerminateJob,
\* setCancellationIntentStatus).
THEOREM EveryStopIsProven == RegistrySpec => []StopIsProven
<1>1. RegistryInv => StopIsProven BY DEF RegistryInv, Proven, Over, StopIsProven
<1> QED BY <1>1, RegistryIsSound, PTL

\* The invariant of the ends: the outcome under way, the turn and the row.
THEOREM EndsAreSound == RegistrySpec => []EndsInv
<1>1. RegistryInv /\ RegistryInv' /\ EndsInv /\ [RegistryNext]_registryVars => EndsInv'
  <2> SUFFICES ASSUME RegistryInv, RegistryInv', EndsInv, [RegistryNext]_registryVars PROVE EndsInv' OBVIOUS
  <2>1. EveryOnward BY EndsStep
  <2> QED BY <2>1 DEF EveryOnward, Onward, EndsInv
<1> QED BY <1>1, EndsStart, RegistryIsSound, PTL DEF RegistrySpec

\* The end that a Job has on record is the end of its turn, as far as the owner
\* still says it, however stops, their late answers, refused and rolled-back
\* commits, rows that are not written, a lost worker, the archive of the project
\* and a crash of the bridge fall together; so no turn goes on behind a Job that
\* is on record as over (settleExecution, forceTerminateJob,
\* stopForProjectArchive, assertJobMayExecute, loadJobs).
THEOREM NoEndIsInvented == RegistrySpec => []EndIsTrue
<1>1. EndsInv => EndIsTrue BY DEF EndsInv, EndInv, EndIsTrue
<1> QED BY <1>1, EndsAreSound, PTL

\* Which end is on record may change (CompletedIsPreserved does not hold), but a
\* Job that has ended there never becomes active again, in no step of the
\* registry (upsertJob, updateJobProgressState).
EndedStaysEnded == [][\A j \in Jobs : Is(row, j, TerminalStatus) => Is(row', j, TerminalStatus)]_registryVars

THEOREM NoEndIsTakenBack == RegistrySpec => EndedStaysEnded
<1>1. RegistryInv /\ RegistryInv' /\ EndsInv /\ [RegistryNext]_registryVars =>
         [\A j \in Jobs : Is(row, j, TerminalStatus) => Is(row', j, TerminalStatus)]_registryVars
  <2> SUFFICES ASSUME RegistryInv, RegistryInv', EndsInv, [RegistryNext]_registryVars
               PROVE  \A j \in Jobs : Is(row, j, TerminalStatus) => Is(row', j, TerminalStatus)
      OBVIOUS
  <2>1. EveryOnward BY EndsStep
  <2> QED BY <2>1 DEF EveryOnward, Onward
<1> QED BY <1>1, EndsAreSound, RegistryIsSound, PTL DEF RegistrySpec, EndedStaysEnded
=============================================================================
