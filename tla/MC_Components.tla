--------------------------- MODULE MC_Components ---------------------------
(* The components that keep no state in common, checked side by side: every   *)
(* behaviour is one of one component, and the others stay as they began.  The *)
(* relay takes part twice, with a repeated question and two cards, and with    *)
(* one card and everything that can hold the end of a Job; the accounts twice, *)
(* with the logins of a profile, and with launches that outlive the helper.    *)
(* In the registry either something fails or a Job may be stopped twice, and   *)
(* both Jobs only while their project is in use.                               *)
EXTENDS RelayDelivery, JobRegistry, ThreadConnections, AutomaticRecovery, StateDatabase,
        RuntimeStop, ScopeFairQueue, AccountSelection, LifecycleReservations,
        QuestionAnswers, TLC

CONSTANTS id1, id2, single, h1, h2, l1, l2, signedIn

VARIABLE part

Bound == [identity |-> id1, deadline |-> 3]

OneCard == INSTANCE RelayDelivery
    WITH Inputs <- {}, Cards <- {single}, Waits <- {single}, MaxReviews <- 1, MaxRelayTime <- 3

Launches == INSTANCE AccountSelection
    WITH Profiles <- {}, Homes <- {h1, h2}, Accounts <- {signedIn}, Launchers <- {l1, l2},
         MaxLogins <- 0, MaxActivations <- 2, MaxHelperEnds <- 1

Parts == {"relay", "holds", "registry", "threads", "recovery", "database", "stop", "queue",
          "logins", "launches", "lifecycle", "questions"}

Init ==
    /\ part \in Parts
    /\ IF part = "holds" THEN OneCard!RelayInit ELSE RelayInit
    /\ IF part = "launches" THEN Launches!AccountInit ELSE AccountInit
    /\ \A home \in DOMAIN credential \ Profiles : credential[home] = signedIn
    /\ RegistryInit /\ ThreadsInit /\ RecoveryInit /\ DatabaseInit /\ StopInit /\ QueueInit /\ ReservationsInit
    /\ QuestionsInit

Next ==
    /\ UNCHANGED part
    /\ \/ /\ \/ part = "relay" /\ RelayNext
             \/ part = "holds" /\ OneCard!RelayNext
          /\ UNCHANGED <<registryVars, threadVars, recoveryVars, databaseVars, stopVars, queueVars, accountVars, reservationVars, answerVars>>
       \/ /\ part = "registry" /\ RegistryNext
          /\ IF faults' = 0 THEN project' # "active" => \E j \in Jobs : Len(intents'[j]) < MaxStops
                            ELSE \A j \in Jobs : Len(intents'[j]) < MaxStops
          /\ UNCHANGED <<relayVars, threadVars, recoveryVars, databaseVars, stopVars, queueVars, accountVars, reservationVars, answerVars>>
       \/ /\ part = "threads" /\ ThreadsNext
          /\ UNCHANGED <<relayVars, registryVars, recoveryVars, databaseVars, stopVars, queueVars, accountVars, reservationVars, answerVars>>
       \/ /\ part = "recovery" /\ RecoveryNext
          /\ UNCHANGED <<relayVars, registryVars, threadVars, databaseVars, stopVars, queueVars, accountVars, reservationVars, answerVars>>
       \/ /\ part = "database" /\ DatabaseNext
          /\ UNCHANGED <<relayVars, registryVars, threadVars, recoveryVars, stopVars, queueVars, accountVars, reservationVars, answerVars>>
       \/ /\ part = "stop" /\ StopNext
          /\ UNCHANGED <<relayVars, registryVars, threadVars, recoveryVars, databaseVars, queueVars, accountVars, reservationVars, answerVars>>
       \/ /\ part = "queue" /\ QueueNext
          /\ UNCHANGED <<relayVars, registryVars, threadVars, recoveryVars, databaseVars, stopVars, accountVars, reservationVars, answerVars>>
       \/ /\ \/ part = "logins" /\ AccountNext
             \/ part = "launches" /\ Launches!AccountNext
          /\ UNCHANGED <<relayVars, registryVars, threadVars, recoveryVars, databaseVars, stopVars, queueVars, reservationVars, answerVars>>
       \/ /\ part = "lifecycle" /\ ReservationsNext
          /\ UNCHANGED <<relayVars, registryVars, threadVars, recoveryVars, databaseVars, stopVars, queueVars, accountVars, answerVars>>
       \/ /\ part = "questions" /\ QuestionsNext
          /\ UNCHANGED <<relayVars, registryVars, threadVars, recoveryVars, databaseVars, stopVars, queueVars, accountVars, reservationVars>>

vars == <<part, relayVars, registryVars, threadVars, recoveryVars, databaseVars, stopVars, queueVars, accountVars, reservationVars, answerVars>>
Spec == Init /\ [][Next]_vars
=============================================================================
