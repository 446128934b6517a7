----------------------- MODULE AccountSelectionProofs -----------------------
(* The theorems of AccountSelection: the account that was confirmed is the    *)
(* one in use, and a connection is applied only on the proof of the runtime   *)
(* that holds the lock.                                                       *)
EXTENDS AccountSelection, TLAPS

--------------------------------------------------------------------------
(* The types *)

Proofs == [account : Accounts \cup {None}, cli : Clis]
Activations ==
    [id : Nat, to : Connections \cup {None}, generation : Nat, status : {"starting", "uncertain"}]
ProfileStatuses == {"unused", "available", "removed", "login-unconfirmed", "logout-unconfirmed"}
ProfileRows == [kind : Kinds \cup {None}, status : ProfileStatuses]
Selections ==
    [generation : Nat, applied : Connections, shown : Accounts \cup {None}, pending : Connections \cup {None},
     proof : Proofs \cup {None}, candidate : Candidates \cup {None}, activation : Activations \cup {None},
     profiles : [Profiles -> ProfileRows]]
Calls == [of : Connections, account : Accounts \cup {None}, cli : Clis, stale : BOOLEAN]

AccountTypeOK ==
    /\ saved \in Selections
    /\ credential \in [Outside \cup Profiles -> Accounts \cup {None}]
    /\ cli \in Clis
    /\ login \in [Profiles -> {"none", "running", "succeeded", "failed"}]
    /\ leaving \in [Profiles -> {"none", "awaited", "orphaned"}]
    /\ inFlight \in [Operations -> Calls \cup {None}]
    /\ forgotten \subseteq Profiles
    /\ spent \in [activations : Nat, logins : Nat, ends : Nat, outside : Nat]

--------------------------------------------------------------------------
(* Who may write a profile, and what the selection says of it *)

\* A profile that completeActivation has forgotten is outside the promise.
Shows(p, account) == p \notin forgotten => credential[p] = account

\* A login that runs is the candidate's, on record as one whose outcome is
\* open, or its profile is on record as not to be offered again.
WriterIsKnown ==
    \A p \in Profiles \ forgotten :
        login[p] = "running" =>
            \/ IsCandidate(p) /\ saved.candidate.status \in Attempted
            \/ saved.profiles[p].status = "login-unconfirmed"

\* A logout that may still take effect is on record.
LogoutIsKnown ==
    \A p \in Profiles : leaving[p] # "none" => saved.profiles[p].status = "logout-unconfirmed"

\* The candidate is a profile nothing else uses, and a verified one has the
\* account that was seen.
CandidateIsFree ==
    saved.candidate # None =>
        /\ saved.profiles[saved.candidate.id].status = "available"
        /\ saved.applied # saved.candidate.id
        /\ saved.candidate.status = "verified" => Shows(saved.candidate.id, saved.candidate.account)

\* A profile that is staged is the verified candidate, with the account shown.
PendingIsVerified ==
    saved.pending \in Profiles =>
        /\ IsCandidate(saved.pending) /\ saved.candidate.status = "verified"
        /\ Shows(saved.pending, saved.proof.account)

\* A connection that is staged has the proof it was confirmed with.
PendingHasProof == saved.pending # None => saved.proof \in Proofs

AppliedIsAvailable ==
    saved.applied \in Profiles =>
        /\ saved.profiles[saved.applied].status = "available"
        /\ Shows(saved.applied, saved.shown)

ActivationIsOfPending ==
    saved.activation # None => saved.pending # None /\ saved.activation.to = saved.pending

\* What a call under way that nothing overtook has seen is so still.
CallsAreFresh ==
    /\ inFlight["verify"] # None /\ ~inFlight["verify"].stale =>
          /\ inFlight["verify"].of \in Profiles /\ IsCandidate(inFlight["verify"].of)
          /\ saved.pending # inFlight["verify"].of
          /\ saved.candidate.status \notin Attempted
          /\ Shows(inFlight["verify"].of, inFlight["verify"].account)
    /\ inFlight["activate"] # None /\ ~inFlight["activate"].stale => saved.pending # None

\* The inductive invariant of the accounts.
AccountInv ==
    /\ AccountTypeOK
    /\ WriterIsKnown /\ LogoutIsKnown
    /\ CandidateIsFree /\ PendingIsVerified /\ PendingHasProof /\ AppliedIsAvailable
    /\ ActivationIsOfPending /\ CallsAreFresh

--------------------------------------------------------------------------
(* What an update does to the types and to the calls under way *)

\* A save marks every call under way as overtaken (update, 902).
LEMMA SaveOvertakes ==
    ASSUME AccountTypeOK, NEW s, Saves(s)
    PROVE  inFlight' \in [Operations -> Calls \cup {None}] /\ CallsAreFresh'
<1>1. inFlight' \in [Operations -> Calls \cup {None}]
      BY DEF AccountTypeOK, Saves, Staled, Calls
<1>2. \A o \in Operations : inFlight'[o] # None => inFlight'[o].stale
      BY DEF AccountTypeOK, Saves, Staled, Calls, Operations
<1> QED BY <1>1, <1>2 DEF CallsAreFresh, Operations

LEMMA SaveAndEndOvertakes ==
    ASSUME AccountTypeOK, NEW o \in Operations, NEW s, SavesAndEnds(o, s)
    PROVE  inFlight' \in [Operations -> Calls \cup {None}] /\ CallsAreFresh'
<1>1. inFlight' \in [Operations -> Calls \cup {None}]
      BY DEF AccountTypeOK, SavesAndEnds, Staled, Calls
<1>2. \A q \in Operations : inFlight'[q] # None => inFlight'[q].stale
      BY DEF AccountTypeOK, SavesAndEnds, Staled, Calls, Operations
<1> QED BY <1>1, <1>2 DEF CallsAreFresh, Operations

\* clearVerification and the status of the attempt (795).
LEMMA StatusIsSet ==
    ASSUME saved \in Selections, saved.candidate # None,
           NEW status \in {"login-started", "login-unconfirmed", "login-completed", "login-failed"}
    PROVE  /\ WithStatus(status) \in Selections
           /\ WithStatus(status).candidate \in Candidates
           /\ WithStatus(status).candidate.id = saved.candidate.id
           /\ WithStatus(status).candidate.status = status
           /\ WithStatus(status).profiles = saved.profiles
           /\ WithStatus(status).applied = saved.applied /\ WithStatus(status).shown = saved.shown
           /\ WithStatus(status).pending = saved.pending /\ WithStatus(status).proof = saved.proof
           /\ WithStatus(status).activation = saved.activation
<1> DEFINE changed == [saved.candidate EXCEPT !.status = status, !.account = None, !.cli = None]
<1>1. changed \in Candidates /\ changed.id = saved.candidate.id /\ changed.status = status
      BY DEF Selections, Candidates
<1>2. WithStatus(status) = [saved EXCEPT !.candidate = changed]
      BY DEF WithStatus
<1> HIDE DEF changed
<1> QED BY <1>1, <1>2 DEF Selections

\* The row of a profile gets another status.
LEMMA ProfileTypes ==
    ASSUME NEW s \in Selections, NEW p \in Profiles, NEW status \in ProfileStatuses
    PROVE  [s EXCEPT !.profiles[p].status = status] \in Selections
<1>1. [s.profiles[p] EXCEPT !.status = status] \in ProfileRows
      BY DEF Selections, ProfileRows
<1>2. [s.profiles EXCEPT ![p].status = status] \in [Profiles -> ProfileRows]
      BY <1>1 DEF Selections
<1> QED BY <1>2 DEF Selections

\* Nothing that is saved changes, no login and no logout begins, and no
\* verification is read: then nothing is disturbed.
LEMMA Undisturbed ==
    ASSUME AccountInv, UNCHANGED <<saved, credential, forgotten>>, AccountTypeOK',
           \A p \in Profiles : login'[p] = "running" => login[p] = "running",
           \A p \in Profiles : leaving'[p] # "none" => leaving[p] # "none",
           inFlight'["verify"] \in {None, inFlight["verify"]},
           inFlight'["activate"] \in {None, inFlight["activate"]} \/ saved.pending # None
    PROVE  AccountInv'
<1> USE DEF AccountInv, Shows, IsCandidate
<1>1. WriterIsKnown' BY DEF WriterIsKnown
<1>2. LogoutIsKnown' BY DEF LogoutIsKnown
<1>3. /\ CandidateIsFree' /\ PendingIsVerified' /\ PendingHasProof' /\ AppliedIsAvailable'
      /\ ActivationIsOfPending'
      BY DEF CandidateIsFree, PendingIsVerified, PendingHasProof, AppliedIsAvailable, ActivationIsOfPending
<1>4. CallsAreFresh' BY DEF CallsAreFresh
<1> QED BY <1>1, <1>2, <1>3, <1>4

--------------------------------------------------------------------------
(* One lemma for each step that saves or writes something *)

\* prepare (159).
LEMMA PrepareStep ==
    ASSUME AccountAssumption, AccountInv, NEW p \in Profiles, NEW kind \in Kinds, Prepare(p, kind)
    PROVE  AccountInv'
<1> USE DEF AccountInv, IsCandidate, Attempted
<1>1. AccountTypeOK'
  <2>1. NewCandidate(p, FALSE) \in Candidates
        BY DEF NewCandidate, Candidates
  <2>2. [kind |-> kind, status |-> "available"] \in ProfileRows
        BY DEF ProfileRows, ProfileStatuses
  <2>3. saved' \in Selections
    <3> DEFINE chosen == [saved EXCEPT !.candidate = NewCandidate(p, FALSE)]
    <3>1. chosen \in Selections
          BY <2>1 DEF AccountTypeOK, Selections
    <3>2. [chosen EXCEPT !.profiles[p] = [kind |-> kind, status |-> "available"]] \in Selections
          BY <2>2, <3>1 DEF Selections
    <3> QED BY <3>2 DEF Prepare, Saves
  <2> QED BY <2>3, SaveOvertakes DEF Prepare, AccountTypeOK
<1> USE <1>1, AccountAssumption DEF AccountTypeOK, Selections, Candidates, Shows, Prepare, Saves,
         NewCandidate
<1>2. WriterIsKnown'
      BY DEF WriterIsKnown
<1>3. LogoutIsKnown'
      BY DEF LogoutIsKnown
<1>4. CandidateIsFree'
      BY DEF CandidateIsFree, AppliedIsAvailable
<1>5. PendingIsVerified'
      BY DEF PendingIsVerified
<1>6. PendingHasProof'
      BY DEF PendingHasProof
<1>7. AppliedIsAvailable'
      BY DEF AppliedIsAvailable
<1>8. ActivationIsOfPending'
      BY DEF ActivationIsOfPending
<1>9. CallsAreFresh'
      BY SaveOvertakes DEF Prepare
<1> QED BY <1>1, <1>2, <1>3, <1>4, <1>5, <1>6, <1>7, <1>8, <1>9

\* selectOwnedProfile (185).
LEMMA SelectStep ==
    ASSUME AccountAssumption, AccountInv, NEW p \in Profiles, SelectOwnedProfile(p)
    PROVE  AccountInv'
<1> USE DEF AccountInv, IsCandidate, Attempted
<1>1. AccountTypeOK'
  <2>1. NewCandidate(p, TRUE) \in Candidates
        BY DEF NewCandidate, Candidates
  <2>2. saved' \in Selections
        BY <2>1 DEF SelectOwnedProfile, Saves, AccountTypeOK, Selections
  <2> QED BY <2>2, SaveOvertakes DEF SelectOwnedProfile, AccountTypeOK
<1> USE <1>1, AccountAssumption DEF AccountTypeOK, Selections, Candidates, Shows,
         SelectOwnedProfile, Saves, NewCandidate
<1>2. WriterIsKnown'
      BY DEF WriterIsKnown
<1>3. LogoutIsKnown'
      BY DEF LogoutIsKnown
<1>4. CandidateIsFree'
      BY DEF CandidateIsFree
<1>5. PendingIsVerified'
      BY DEF PendingIsVerified
<1>6. PendingHasProof'
      BY DEF PendingHasProof
<1>7. AppliedIsAvailable'
      BY DEF AppliedIsAvailable
<1>8. ActivationIsOfPending'
      BY DEF ActivationIsOfPending
<1>9. CallsAreFresh'
      BY SaveOvertakes DEF SelectOwnedProfile
<1> QED BY <1>1, <1>2, <1>3, <1>4, <1>5, <1>6, <1>7, <1>8, <1>9

\* startChatGptLogin and setApiKey (205, 261).
LEMMA StartStep ==
    ASSUME AccountAssumption, AccountInv, NEW p \in Profiles, StartLogin(p)
    PROVE  AccountInv'
<1> USE DEF AccountInv, IsCandidate, Attempted
<1>1. AccountTypeOK'
  <2>1. saved' \in Selections
        BY StatusIsSet DEF StartLogin, MayLogIn, Saves, AccountTypeOK
  <2>2. login' \in [Profiles -> {"none", "running", "succeeded", "failed"}]
        BY DEF StartLogin, AccountTypeOK
  <2>3. inFlight' \in [Operations -> Calls \cup {None}]
        BY SaveOvertakes DEF StartLogin
  <2> QED BY <2>1, <2>2, <2>3 DEF StartLogin, AccountTypeOK
<1> USE <1>1, AccountAssumption, StatusIsSet DEF AccountTypeOK, Selections, Candidates, Shows,
         StartLogin, MayLogIn, Saves
<1>2. WriterIsKnown'
      BY DEF WriterIsKnown
<1>3. LogoutIsKnown'
      BY DEF LogoutIsKnown
<1>4. CandidateIsFree'
      BY DEF CandidateIsFree
<1>5. PendingIsVerified'
      BY DEF PendingIsVerified
<1>6. PendingHasProof'
      BY DEF PendingHasProof
<1>7. AppliedIsAvailable'
      BY DEF AppliedIsAvailable
<1>8. ActivationIsOfPending'
      BY DEF ActivationIsOfPending
<1>9. CallsAreFresh'
      BY SaveOvertakes DEF StartLogin
<1> QED BY <1>1, <1>2, <1>3, <1>4, <1>5, <1>6, <1>7, <1>8, <1>9

\* Codex writes the login it was given.
LEMMA WriteStep ==
    ASSUME AccountAssumption, AccountInv, NEW p \in Profiles, NEW account \in Accounts, LoginWrites(p, account)
    PROVE  AccountInv'
<1> USE DEF AccountInv, IsCandidate, Attempted
<1>1. AccountTypeOK'
      BY DEF LoginWrites, AccountTypeOK
<1> USE <1>1, AccountAssumption DEF AccountTypeOK, Selections, Candidates, Shows, LoginWrites
<1>2. WriterIsKnown'
      BY DEF WriterIsKnown
<1>3. LogoutIsKnown'
      BY DEF LogoutIsKnown
<1>4. CandidateIsFree'
      BY DEF CandidateIsFree, WriterIsKnown
<1>5. PendingIsVerified'
      BY DEF PendingIsVerified, WriterIsKnown, CandidateIsFree
<1>6. PendingHasProof'
      BY DEF PendingHasProof
<1>7. AppliedIsAvailable'
      BY DEF AppliedIsAvailable, WriterIsKnown, CandidateIsFree
<1>8. ActivationIsOfPending'
      BY DEF ActivationIsOfPending
<1>9. CallsAreFresh'
      BY DEF LoginWrites, WriterIsKnown, CandidateIsFree, CallsAreFresh, AccountTypeOK, Selections, Candidates, Shows
<1> QED BY <1>1, <1>2, <1>3, <1>4, <1>5, <1>6, <1>7, <1>8, <1>9

\* The stop of a key login (monitorApiKeyLogin, 350).
LEMMA StopLoginStep ==
    ASSUME AccountAssumption, AccountInv, NEW p \in Profiles, StopApiLogin(p)
    PROVE  AccountInv'
<1> USE DEF AccountInv, IsCandidate, Attempted
<1>1. AccountTypeOK'
  <2>1. saved' \in Selections
        BY StatusIsSet DEF StopApiLogin, Saves, AccountTypeOK
  <2>2. inFlight' \in [Operations -> Calls \cup {None}]
        BY SaveOvertakes DEF StopApiLogin, AccountTypeOK
  <2> QED BY <2>1, <2>2 DEF StopApiLogin, AccountTypeOK
<1> USE <1>1, AccountAssumption, StatusIsSet DEF AccountTypeOK, Selections, Candidates, Shows,
         StopApiLogin, Saves
<1>2. WriterIsKnown'
      BY DEF WriterIsKnown
<1>3. LogoutIsKnown'
      BY DEF LogoutIsKnown
<1>4. CandidateIsFree'
      BY DEF CandidateIsFree
<1>5. PendingIsVerified'
      BY DEF PendingIsVerified
<1>6. PendingHasProof'
      BY DEF PendingHasProof
<1>7. AppliedIsAvailable'
      BY DEF AppliedIsAvailable
<1>8. ActivationIsOfPending'
      BY DEF ActivationIsOfPending
<1>9. CallsAreFresh'
      BY SaveOvertakes DEF StopApiLogin, CallsAreFresh, Shows
<1> QED BY <1>1, <1>2, <1>3, <1>4, <1>5, <1>6, <1>7, <1>8, <1>9

\* The exit handler's update (314).
LEMMA RecordStep ==
    ASSUME AccountAssumption, AccountInv, NEW p \in Profiles, RecordExit(p)
    PROVE  AccountInv'
<1> USE DEF AccountInv, IsCandidate, Attempted
<1>1. AccountTypeOK'
  <2>1. saved' \in Selections
        BY StatusIsSet DEF RecordExit, Saves, AccountTypeOK
  <2>2. inFlight' \in [Operations -> Calls \cup {None}]
        BY SaveOvertakes DEF RecordExit, AccountTypeOK
  <2> QED BY <2>1, <2>2 DEF RecordExit, AccountTypeOK
<1> USE <1>1, AccountAssumption, StatusIsSet DEF AccountTypeOK, Selections, Candidates, Shows,
         RecordExit, Saves, Open
<1>2. WriterIsKnown'
      BY DEF WriterIsKnown
<1>3. LogoutIsKnown'
      BY DEF LogoutIsKnown
<1>4. CandidateIsFree'
      BY DEF CandidateIsFree
<1>5. PendingIsVerified'
      BY DEF PendingIsVerified
<1>6. PendingHasProof'
      BY DEF PendingHasProof
<1>7. AppliedIsAvailable'
      BY DEF AppliedIsAvailable
<1>8. ActivationIsOfPending'
      BY DEF ActivationIsOfPending
<1>9. CallsAreFresh'
      BY SaveOvertakes DEF RecordExit, CallsAreFresh, Shows
<1> QED BY <1>1, <1>2, <1>3, <1>4, <1>5, <1>6, <1>7, <1>8, <1>9

\* cancelCandidate (504): the profile of an open attempt is not offered again.
LEMMA CancelStep ==
    ASSUME AccountAssumption, AccountInv, NEW p \in Profiles, CancelCandidate(p)
    PROVE  AccountInv'
<1> USE DEF AccountInv, IsCandidate, Attempted
<1>1. AccountTypeOK'
  <2>1. Spoilt(p) \in ProfileStatuses
        BY DEF Spoilt, AccountTypeOK, Selections, ProfileRows, ProfileStatuses
  <2>2. [saved EXCEPT !.profiles[p].status = Spoilt(p)] \in Selections
        BY <2>1, ProfileTypes DEF AccountTypeOK
  <2>3. saved' \in Selections
    <3> DEFINE marked == [saved EXCEPT !.profiles[p].status = Spoilt(p)]
    <3>1. saved' = [marked EXCEPT !.candidate = None]
          BY DEF CancelCandidate, Saves
    <3> HIDE DEF marked
    <3>2. marked \in Selections
          BY <2>2 DEF marked
    <3> QED BY <3>1, <3>2 DEF Selections
  <2> QED BY <2>3, SaveOvertakes DEF CancelCandidate, AccountTypeOK
<1> USE <1>1, AccountAssumption DEF AccountTypeOK, Selections, Candidates, Shows, CancelCandidate,
         Saves, Spoilt
<1>2. WriterIsKnown'
      BY DEF WriterIsKnown, CandidateIsFree
<1>3. LogoutIsKnown'
      BY DEF LogoutIsKnown
<1>4. CandidateIsFree'
      BY DEF CandidateIsFree
<1>5. PendingIsVerified'
      BY DEF PendingIsVerified
<1>6. PendingHasProof'
      BY DEF PendingHasProof
<1>7. AppliedIsAvailable'
      BY DEF AppliedIsAvailable, CandidateIsFree
<1>8. ActivationIsOfPending'
      BY DEF ActivationIsOfPending
<1>9. CallsAreFresh'
      BY SaveOvertakes DEF CancelCandidate
<1> QED BY <1>1, <1>2, <1>3, <1>4, <1>5, <1>6, <1>7, <1>8, <1>9

\* verify, up to its await (375).
LEMMA VerifyReadStep ==
    ASSUME AccountAssumption, AccountInv, NEW p \in Profiles, VerifyReads(p)
    PROVE  AccountInv'
<1> USE DEF AccountInv, IsCandidate, Attempted
<1>1. AccountTypeOK'
      BY AccountAssumption DEF VerifyReads, Reads, Account, AccountTypeOK, Calls, Connections
<1> USE <1>1, AccountAssumption DEF AccountTypeOK, Selections, Candidates, Shows, VerifyReads
<1>2. WriterIsKnown'
      BY DEF WriterIsKnown
<1>3. LogoutIsKnown'
      BY DEF LogoutIsKnown
<1>4. CandidateIsFree'
      BY DEF CandidateIsFree
<1>5. PendingIsVerified'
      BY DEF PendingIsVerified
<1>6. PendingHasProof'
      BY DEF PendingHasProof
<1>7. AppliedIsAvailable'
      BY DEF AppliedIsAvailable
<1>8. ActivationIsOfPending'
      BY DEF ActivationIsOfPending
<1>9. CallsAreFresh'
      BY AccountAssumption DEF VerifyReads, Verifiable, Reads, Account, Operations, AccountTypeOK, Calls, CallsAreFresh, Shows
<1> QED BY <1>1, <1>2, <1>3, <1>4, <1>5, <1>6, <1>7, <1>8, <1>9

\* verify, behind its await: the candidate is the verified one (392).
LEMMA VerifySaveStep ==
    ASSUME AccountAssumption, AccountInv, VerifySaves, Unchanged("verify"), IsCandidate(inFlight["verify"].of)
    PROVE  AccountInv'
<1> USE DEF AccountInv, IsCandidate, Attempted
<1> DEFINE call == inFlight["verify"]
          seen == [saved.candidate EXCEPT !.status = "verified", !.account = call.account, !.cli = call.cli]
<1>0. /\ saved' = [saved EXCEPT !.candidate = seen] /\ call # None /\ ~call.stale
      /\ UNCHANGED <<credential, login, leaving, forgotten>>
      BY DEF VerifySaves, SavesAndEnds, Unchanged
<1>1. AccountTypeOK' /\ seen \in Candidates /\ seen.id = saved.candidate.id /\ seen.account = call.account
  <2>1. seen \in Candidates /\ seen.id = saved.candidate.id /\ seen.account = call.account
        BY <1>0 DEF AccountTypeOK, Selections, Candidates, Calls, Operations
  <2>2. saved' \in Selections
        BY <1>0, <2>1 DEF AccountTypeOK, Selections
  <2>3. inFlight' \in [Operations -> Calls \cup {None}]
        BY SaveAndEndOvertakes DEF VerifySaves, Operations
  <2> QED BY <2>1, <2>2, <2>3 DEF VerifySaves, AccountTypeOK
<1> USE <1>0, <1>1, AccountAssumption DEF AccountTypeOK, Selections, Candidates, Shows,
         CallsAreFresh
<1>2. WriterIsKnown'
      BY DEF WriterIsKnown
<1>3. LogoutIsKnown'
      BY DEF LogoutIsKnown
<1>4. CandidateIsFree'
      BY DEF CandidateIsFree
<1>5. PendingIsVerified'
      BY DEF PendingIsVerified
<1>6. PendingHasProof'
      BY DEF PendingHasProof
<1>7. AppliedIsAvailable'
      BY DEF AppliedIsAvailable
<1>8. ActivationIsOfPending'
      BY DEF ActivationIsOfPending
<1>9. CallsAreFresh'
      BY SaveAndEndOvertakes DEF VerifySaves, Operations, Unchanged
<1> QED BY <1>1, <1>2, <1>3, <1>4, <1>5, <1>6, <1>7, <1>8, <1>9

\* stage, behind its await: the connection is the pending one (476).
LEMMA StageSaveStep ==
    ASSUME AccountAssumption, AccountInv, StageSaves, Unchanged("stage"), saved.activation = None, Verified(inFlight["stage"])
    PROVE  AccountInv'
<1> USE DEF AccountInv, IsCandidate, Attempted
<1> DEFINE call == inFlight["stage"]
<1>0. /\ saved' = [saved EXCEPT !.pending = call.of, !.proof = [account |-> call.account, cli |-> call.cli]]
      /\ call # None /\ UNCHANGED <<credential, login, leaving, forgotten>>
      BY DEF StageSaves, SavesAndEnds
<1>1. AccountTypeOK' /\ saved'.proof \in Proofs
  <2>1. call \in Calls
        BY <1>0 DEF AccountTypeOK, Operations
  <2>2. [account |-> call.account, cli |-> call.cli] \in Proofs
        BY <2>1 DEF Calls, Proofs
  <2>3. saved' \in Selections
        BY <1>0, <2>1, <2>2 DEF AccountTypeOK, Selections, Calls
  <2>4. inFlight' \in [Operations -> Calls \cup {None}]
        BY SaveAndEndOvertakes DEF StageSaves, Operations
  <2>5. saved'.proof \in Proofs
        BY <1>0, <2>2 DEF AccountTypeOK, Selections
  <2> QED BY <2>3, <2>4, <2>5 DEF StageSaves, AccountTypeOK
<1> USE <1>0, <1>1, AccountAssumption DEF AccountTypeOK, Selections, Candidates, Shows, Verified
<1>2. WriterIsKnown'
      BY DEF WriterIsKnown
<1>3. LogoutIsKnown'
      BY DEF LogoutIsKnown
<1>4. CandidateIsFree'
      BY DEF CandidateIsFree
<1>5. PendingIsVerified'
      BY DEF PendingIsVerified, CandidateIsFree
<1>6. PendingHasProof'
      BY DEF PendingHasProof
<1>7. AppliedIsAvailable'
      BY DEF AppliedIsAvailable
<1>8. ActivationIsOfPending'
      BY DEF ActivationIsOfPending
<1>9. CallsAreFresh'
      BY SaveAndEndOvertakes DEF StageSaves, Operations
<1> QED BY <1>1, <1>2, <1>3, <1>4, <1>5, <1>6, <1>7, <1>8, <1>9

\* cancelPending (524).
LEMMA CancelPendingStep ==
    ASSUME AccountAssumption, AccountInv, CancelPending
    PROVE  AccountInv'
<1> USE DEF AccountInv, IsCandidate, Attempted
<1>1. AccountTypeOK'
  <2>1. saved' \in Selections
        BY DEF CancelPending, Saves, AccountTypeOK, Selections
  <2> QED BY <2>1, SaveOvertakes DEF CancelPending, AccountTypeOK
<1> USE <1>1, AccountAssumption DEF AccountTypeOK, Selections, Candidates, Shows, CancelPending,
         Admits, Saves
<1>2. WriterIsKnown'
      BY DEF WriterIsKnown
<1>3. LogoutIsKnown'
      BY DEF LogoutIsKnown
<1>4. CandidateIsFree'
      BY DEF CandidateIsFree
<1>5. PendingIsVerified'
      BY DEF PendingIsVerified
<1>6. PendingHasProof'
      BY DEF PendingHasProof
<1>7. AppliedIsAvailable'
      BY DEF AppliedIsAvailable
<1>8. ActivationIsOfPending'
      BY DEF ActivationIsOfPending
<1>9. CallsAreFresh'
      BY SaveOvertakes DEF CancelPending
<1> QED BY <1>1, <1>2, <1>3, <1>4, <1>5, <1>6, <1>7, <1>8, <1>9

\* removeApiKey (697).
LEMMA RemoveStep ==
    ASSUME AccountAssumption, AccountInv, NEW p \in Profiles, RemoveApiKey(p)
    PROVE  AccountInv'
<1> USE DEF AccountInv, IsCandidate, Attempted
<1>1. AccountTypeOK'
  <2>0. [saved EXCEPT !.profiles[p].status = "removed"] \in Selections
        BY ProfileTypes DEF AccountTypeOK, ProfileStatuses
  <2>1. saved' \in Selections
        BY <2>0 DEF RemoveApiKey, Saves, AccountTypeOK
  <2>2. inFlight' \in [Operations -> Calls \cup {None}]
        BY SaveOvertakes DEF RemoveApiKey, AccountTypeOK
  <2> QED BY <2>1, <2>2 DEF RemoveApiKey, AccountTypeOK
<1> USE <1>1, AccountAssumption DEF AccountTypeOK, Selections, Candidates, Shows, RemoveApiKey,
         Inactive, Saves
<1>2. WriterIsKnown'
      BY DEF WriterIsKnown
<1>3. LogoutIsKnown'
      BY DEF LogoutIsKnown
<1>4. CandidateIsFree'
      BY DEF CandidateIsFree
<1>5. PendingIsVerified'
      BY DEF PendingIsVerified
<1>6. PendingHasProof'
      BY DEF PendingHasProof
<1>7. AppliedIsAvailable'
      BY DEF AppliedIsAvailable
<1>8. ActivationIsOfPending'
      BY DEF ActivationIsOfPending
<1>9. CallsAreFresh'
      BY SaveOvertakes DEF RemoveApiKey, Inactive, CallsAreFresh, AccountTypeOK, Shows
<1> QED BY <1>1, <1>2, <1>3, <1>4, <1>5, <1>6, <1>7, <1>8, <1>9

\* logoutOwnedChatGpt, the intent and the request (754).
LEMMA AskLogoutStep ==
    ASSUME AccountAssumption, AccountInv, NEW p \in Profiles, AskLogout(p)
    PROVE  AccountInv'
<1> USE DEF AccountInv, IsCandidate, Attempted
<1>1. AccountTypeOK'
  <2>1. saved' \in Selections
        BY ProfileTypes DEF AskLogout, Saves, AccountTypeOK, ProfileStatuses
  <2> QED BY <2>1, SaveOvertakes DEF AskLogout, AccountTypeOK
<1> USE <1>1, AccountAssumption DEF AccountTypeOK, Selections, Candidates, Shows, AskLogout,
         Inactive, Saves
<1>2. WriterIsKnown'
      BY DEF WriterIsKnown
<1>3. LogoutIsKnown'
      BY DEF LogoutIsKnown
<1>4. CandidateIsFree'
      BY DEF CandidateIsFree
<1>5. PendingIsVerified'
      BY DEF PendingIsVerified
<1>6. PendingHasProof'
      BY DEF PendingHasProof
<1>7. AppliedIsAvailable'
      BY DEF AppliedIsAvailable
<1>8. ActivationIsOfPending'
      BY DEF ActivationIsOfPending
<1>9. CallsAreFresh'
      BY SaveOvertakes DEF AskLogout
<1> QED BY <1>1, <1>2, <1>3, <1>4, <1>5, <1>6, <1>7, <1>8, <1>9

\* The logout takes effect, whether its reply arrives or not (760).
LEMMA LogoutStep ==
    ASSUME AccountAssumption, AccountInv, NEW p \in Profiles, LogoutTakesEffect(p)
    PROVE  AccountInv'
<1> USE DEF AccountInv, IsCandidate, Attempted
<1>1. AccountTypeOK'
  <2>0. [saved EXCEPT !.profiles[p].status = "removed"] \in Selections
        BY ProfileTypes DEF AccountTypeOK, ProfileStatuses
  <2>1. saved' \in Selections
        BY <2>0 DEF LogoutTakesEffect, Saves, AccountTypeOK
  <2>2. inFlight' \in [Operations -> Calls \cup {None}]
        BY SaveOvertakes DEF LogoutTakesEffect, AccountTypeOK
  <2> QED BY <2>1, <2>2 DEF LogoutTakesEffect, AccountTypeOK
<1> USE <1>1, AccountAssumption DEF AccountTypeOK, Selections, Candidates, Shows, LogoutTakesEffect,
         Saves
<1>2. WriterIsKnown'
      BY DEF WriterIsKnown, LogoutIsKnown, CandidateIsFree
<1>3. LogoutIsKnown'
      BY DEF LogoutIsKnown
<1>4. CandidateIsFree'
      BY DEF CandidateIsFree, LogoutIsKnown
<1>5. PendingIsVerified'
      BY DEF PendingIsVerified, LogoutIsKnown, CandidateIsFree
<1>6. PendingHasProof'
      BY DEF PendingHasProof
<1>7. AppliedIsAvailable'
      BY DEF AppliedIsAvailable, LogoutIsKnown
<1>8. ActivationIsOfPending'
      BY DEF ActivationIsOfPending
<1>9. CallsAreFresh'
      BY SaveOvertakes DEF LogoutTakesEffect, LogoutIsKnown, CandidateIsFree, CallsAreFresh, AccountTypeOK, Shows
<1> QED BY <1>1, <1>2, <1>3, <1>4, <1>5, <1>6, <1>7, <1>8, <1>9

\* beginActivation, with failActivation when nothing was started (606, 657).
LEMMA ActivationStep ==
    ASSUME AccountAssumption, AccountInv, RestartSaves, Unchanged("activate")
    PROVE  AccountInv'
<1> USE DEF AccountInv, IsCandidate, Attempted
<1>0. /\ saved.pending # None /\ UNCHANGED <<credential, login, leaving, forgotten>>
      /\ saved' \in {saved, [saved EXCEPT !.activation = Activation]}
      BY DEF RestartSaves, SavesAndEnds, Unchanged, CallsAreFresh
<1>1. AccountTypeOK'
  <2>1. Activation \in Activations
        BY DEF Activation, Activations, CallsAreFresh, Unchanged, RestartSaves, AccountTypeOK, Selections
  <2>2. saved' \in Selections
        BY <2>1 DEF RestartSaves, SavesAndEnds, AccountTypeOK, Selections
  <2>3. inFlight' \in [Operations -> Calls \cup {None}]
        BY SaveAndEndOvertakes DEF RestartSaves, Operations
  <2> QED BY <2>2, <2>3 DEF RestartSaves, AccountTypeOK
<1> USE <1>0, <1>1, AccountAssumption DEF AccountTypeOK, Selections, Candidates, Shows, Activation
<1>2. WriterIsKnown'
      BY DEF WriterIsKnown
<1>3. LogoutIsKnown'
      BY DEF LogoutIsKnown
<1>4. CandidateIsFree'
      BY DEF CandidateIsFree
<1>5. PendingIsVerified'
      BY DEF PendingIsVerified
<1>6. PendingHasProof'
      BY DEF PendingHasProof
<1>7. AppliedIsAvailable'
      BY DEF AppliedIsAvailable
<1>8. ActivationIsOfPending'
      BY DEF ActivationIsOfPending
<1>9. CallsAreFresh'
      BY SaveAndEndOvertakes DEF RestartSaves, Operations
<1> QED BY <1>1, <1>2, <1>3, <1>4, <1>5, <1>6, <1>7, <1>8, <1>9

\* completeActivation (624).
LEMMA CompletionStep ==
    ASSUME AccountAssumption, AccountInv, Completes, saved.activation # None, UNCHANGED <<credential, cli, login, leaving, spent>>
    PROVE  AccountInv'
<1> USE DEF AccountInv, IsCandidate, Attempted
<1>1. AccountTypeOK'
  <2>1. saved.activation \in Activations /\ saved.activation.to \in Connections /\ saved.proof \in Proofs
        BY DEF AccountTypeOK, Selections, ActivationIsOfPending, PendingHasProof
  <2>2. /\ saved.activation.generation \in Nat /\ saved.proof.account \in Accounts \cup {None}
        BY <2>1 DEF Activations, Proofs
  <2>3. saved' \in Selections /\ saved'.pending = None
        BY <2>1, <2>2 DEF Completes, Applied, Saves, AccountTypeOK, Selections
  <2>4. forgotten' \subseteq Profiles
        BY DEF Completes, AccountTypeOK, Selections, Candidates
  <2> QED BY <2>3, <2>4, SaveOvertakes DEF Completes, AccountTypeOK
<1> USE <1>1, AccountAssumption DEF AccountTypeOK, Selections, Candidates, Shows, Completes,
         Applied, Saves
<1>2. WriterIsKnown'
      BY DEF WriterIsKnown
<1>3. LogoutIsKnown'
      BY DEF LogoutIsKnown
<1>4. CandidateIsFree'
      BY DEF CandidateIsFree
<1>5. PendingIsVerified'
      BY DEF PendingIsVerified
<1>6. PendingHasProof'
      BY DEF PendingHasProof
<1>7. AppliedIsAvailable'
      BY DEF AppliedIsAvailable, PendingIsVerified, CandidateIsFree, ActivationIsOfPending
<1>8. ActivationIsOfPending'
      BY DEF ActivationIsOfPending
<1>9. CallsAreFresh'
      BY SaveOvertakes DEF Completes
<1> QED BY <1>1, <1>2, <1>3, <1>4, <1>5, <1>6, <1>7, <1>8, <1>9

\* failActivation of a launch that may have begun (657).
LEMMA LaunchFailsStep ==
    ASSUME AccountAssumption, AccountInv, LaunchFails
    PROVE  AccountInv'
<1> USE DEF AccountInv, IsCandidate, Attempted
<1>1. AccountTypeOK'
  <2>1. saved' \in Selections
    <3>1. saved.activation # None => [saved.activation EXCEPT !.status = "uncertain"] \in Activations
          BY DEF AccountTypeOK, Selections, Activations
    <3> QED BY <3>1 DEF LaunchFails, Saves, AccountTypeOK, Selections
  <2>2. inFlight' \in [Operations -> Calls \cup {None}]
        BY SaveOvertakes DEF LaunchFails, AccountTypeOK
  <2> QED BY <2>1, <2>2 DEF LaunchFails, AccountTypeOK
<1> USE <1>1, AccountAssumption DEF AccountTypeOK, Selections, Candidates, Shows, Activations,
         LaunchFails, Saves
<1>2. WriterIsKnown'
      BY DEF WriterIsKnown
<1>3. LogoutIsKnown'
      BY DEF LogoutIsKnown
<1>4. CandidateIsFree'
      BY DEF CandidateIsFree
<1>5. PendingIsVerified'
      BY DEF PendingIsVerified
<1>6. PendingHasProof'
      BY DEF PendingHasProof
<1>7. AppliedIsAvailable'
      BY DEF AppliedIsAvailable
<1>8. ActivationIsOfPending'
      BY DEF ActivationIsOfPending
<1>9. CallsAreFresh'
      BY SaveOvertakes DEF LaunchFails, CallsAreFresh, Shows
<1> QED BY <1>1, <1>2, <1>3, <1>4, <1>5, <1>6, <1>7, <1>8, <1>9

\* resolveStoppedActivation (668).
LEMMA ResolveStep ==
    ASSUME AccountAssumption, AccountInv, ResolveStopped
    PROVE  AccountInv'
<1> USE DEF AccountInv, IsCandidate, Attempted
<1>1. AccountTypeOK'
  <2>1. saved' \in Selections
        BY DEF ResolveStopped, Saves, AccountTypeOK, Selections
  <2> QED BY <2>1, SaveOvertakes DEF ResolveStopped, AccountTypeOK
<1> USE <1>1, AccountAssumption DEF AccountTypeOK, Selections, Candidates, Shows, ResolveStopped,
         Saves
<1>2. WriterIsKnown'
      BY DEF WriterIsKnown
<1>3. LogoutIsKnown'
      BY DEF LogoutIsKnown
<1>4. CandidateIsFree'
      BY DEF CandidateIsFree
<1>5. PendingIsVerified'
      BY DEF PendingIsVerified
<1>6. PendingHasProof'
      BY DEF PendingHasProof
<1>7. AppliedIsAvailable'
      BY DEF AppliedIsAvailable
<1>8. ActivationIsOfPending'
      BY DEF ActivationIsOfPending
<1>9. CallsAreFresh'
      BY SaveOvertakes DEF ResolveStopped
<1> QED BY <1>1, <1>2, <1>3, <1>4, <1>5, <1>6, <1>7, <1>8, <1>9

\* Another login in the user's own Codex, or another CLI.
LEMMA OutsideStep ==
    ASSUME AccountAssumption, AccountInv, OutsideChanges
    PROVE  AccountInv'
<1> USE DEF AccountInv, IsCandidate, Attempted
<1>1. AccountTypeOK'
      BY DEF OutsideChanges, AccountTypeOK, Outside
<1> USE <1>1, AccountAssumption DEF AccountTypeOK, Selections, Candidates, Shows, Outside,
         OutsideChanges
<1>2. WriterIsKnown'
      BY DEF WriterIsKnown
<1>3. LogoutIsKnown'
      BY DEF LogoutIsKnown
<1>4. CandidateIsFree'
      BY DEF CandidateIsFree
<1>5. PendingIsVerified'
      BY DEF PendingIsVerified
<1>6. PendingHasProof'
      BY DEF PendingHasProof
<1>7. AppliedIsAvailable'
      BY DEF AppliedIsAvailable
<1>8. ActivationIsOfPending'
      BY DEF ActivationIsOfPending
<1>9. CallsAreFresh'
      BY AccountAssumption DEF OutsideChanges, CallsAreFresh, Outside, AccountTypeOK, Shows
<1> QED BY <1>1, <1>2, <1>3, <1>4, <1>5, <1>6, <1>7, <1>8, <1>9

--------------------------------------------------------------------------
(* The theorem *)

\* The steps that save nothing: the exit of a login, the reads of stage and of
\* beginActivation, the launchers, and the end of the helper.
LEMMA QuietStep ==
    ASSUME AccountInv,
           \/ \E p \in Profiles : LoginExits(p)
           \/ \E c \in Connections : StageReads(c)
           \/ \E l \in Launchers : LauncherReads(l) \/ LauncherLocks(l) \/ LauncherEnds(l)
           \/ \E busy \in BOOLEAN : Relaunch(busy)
           \/ RestartReads \/ StopRuntime \/ HelperEnds \/ UNCHANGED accountVars
    PROVE  AccountInv'
<1>0. AccountTypeOK
      BY DEF AccountInv
<1> USE <1>0
<1>1. ASSUME NEW p \in Profiles, LoginExits(p) PROVE AccountInv'
      BY <1>1, Undisturbed DEF LoginExits, AccountTypeOK
<1>2. ASSUME NEW c \in Connections, StageReads(c) PROVE AccountInv'
  <2>1. AccountTypeOK'
        BY <1>2 DEF StageReads, Reads, Account, Connections, Calls, AccountTypeOK
  <2> QED BY <1>2, <2>1, Undisturbed DEF StageReads, Reads, AccountTypeOK, Operations
<1>3. ASSUME NEW l \in Launchers, LauncherReads(l) \/ LauncherLocks(l) \/ LauncherEnds(l) PROVE AccountInv'
      BY <1>3, Undisturbed DEF LauncherReads, LauncherLocks, LauncherEnds, AccountTypeOK
<1>4. ASSUME NEW busy \in BOOLEAN, Relaunch(busy) PROVE AccountInv'
      BY <1>4, Undisturbed DEF Relaunch, AccountTypeOK
<1>5. CASE RestartReads
  <2>1. AccountTypeOK'
    <3>1. saved.pending \in Connections
          BY <1>5 DEF RestartReads, AccountTypeOK, Selections
    <3>2. inFlight' \in [Operations -> Calls \cup {None}]
          BY <1>5, <3>1 DEF RestartReads, Reads, Account, Connections, Calls, AccountTypeOK
    <3>3. spent' \in [activations : Nat, logins : Nat, ends : Nat, outside : Nat]
          BY <1>5 DEF RestartReads, AccountTypeOK
    <3> QED BY <1>5, <3>2, <3>3 DEF RestartReads, AccountTypeOK
  <2> QED BY <1>5, <2>1, Undisturbed DEF RestartReads, Reads, AccountTypeOK, Operations
<1>6. CASE StopRuntime
      BY <1>6, Undisturbed DEF StopRuntime, AccountTypeOK
<1>7. CASE HelperEnds
  <2>1. AccountTypeOK'
        BY <1>7 DEF HelperEnds, AccountTypeOK
  <2> QED BY <1>7, <2>1, Undisturbed DEF HelperEnds, AccountTypeOK, Operations
<1>8. CASE UNCHANGED accountVars
      BY <1>8, Undisturbed DEF accountVars, AccountTypeOK
<1> QED BY <1>1, <1>2, <1>3, <1>4, <1>5, <1>6, <1>7, <1>8

\* The updates with an await, when they are refused; and the launch.
LEMMA LaunchStep ==
    ASSUME AccountAssumption, AccountInv,
           \/ VerifySaves \/ StageSaves \/ RestartSaves \/ Ready
           \/ \E l \in Launchers : Adopt(l)
    PROVE  AccountInv'
<1>0. AccountTypeOK
      BY DEF AccountInv
<1> USE <1>0
<1>1. CASE VerifySaves
  <2>1. CASE ~(Unchanged("verify") /\ IsCandidate(inFlight["verify"].of))
        BY <1>1, <2>1, Undisturbed DEF VerifySaves, EndsRequest, AccountTypeOK, Operations
  <2> QED BY <1>1, <2>1, VerifySaveStep
<1>2. CASE StageSaves
  <2>1. CASE ~(Unchanged("stage") /\ saved.activation = None /\ Verified(inFlight["stage"]))
        BY <1>2, <2>1, Undisturbed DEF StageSaves, EndsRequest, AccountTypeOK, Operations
  <2> QED BY <1>2, <2>1, StageSaveStep
<1>3. CASE RestartSaves
  <2>1. CASE ~Unchanged("activate")
        BY <1>3, <2>1, Undisturbed DEF RestartSaves, EndsRequest, AccountTypeOK, Operations
  <2> QED BY <1>3, <2>1, ActivationStep
<1>4. CASE Ready
  <2>1. CASE saved.activation # None /\ Completes
        BY <1>4, <2>1, CompletionStep DEF Ready
  <2>2. CASE UNCHANGED <<saved, inFlight, forgotten>>
        BY <1>4, <2>2, Undisturbed DEF Ready, AccountTypeOK
  <2> QED BY <1>4, <2>1, <2>2 DEF Ready
<1>5. ASSUME NEW l \in Launchers, Adopt(l) PROVE AccountInv'
  <2>1. CASE saved.activation # None /\ Completes
        BY <1>5, <2>1, CompletionStep DEF Adopt
  <2>2. CASE UNCHANGED <<saved, inFlight, forgotten>>
        BY <1>5, <2>2, Undisturbed DEF Adopt, AccountTypeOK
  <2> QED BY <1>5, <2>1, <2>2 DEF Adopt
<1> QED BY <1>1, <1>2, <1>3, <1>4, <1>5

\* Before anything is chosen, no login and no logout is under way.
LEMMA AccountStart ==
    ASSUME AccountAssumption, AccountInit
    PROVE  AccountInv
<1>1. AccountTypeOK
  <2>1. saved \in Selections
        BY DEF AccountInit, Selections, ProfileRows, ProfileStatuses, Kinds, Connections, Outside
  <2> QED BY <2>1, AccountAssumption DEF AccountInit, AccountTypeOK
<1>2. /\ saved.candidate = None /\ saved.pending = None /\ saved.activation = None
      /\ saved.applied \notin Profiles
      BY AccountAssumption DEF AccountInit
<1> QED BY <1>1, <1>2, AccountAssumption DEF AccountInit, AccountInv, WriterIsKnown, LogoutIsKnown,
        CandidateIsFree, PendingIsVerified, PendingHasProof, AppliedIsAvailable, ActivationIsOfPending,
        CallsAreFresh, Operations

\* The account that was shown and confirmed is the one in the profile (stage,
\* 476; completeActivation, 640), for every number of profiles, accounts,
\* logins, requests and ends of the helper.
THEOREM ConfirmedIsUsed == AccountSpec => []ConfirmedAccountIsUsed
<1> USE AccountAssumption
<1>1. AccountInit => AccountInv
      BY AccountStart
<1>2. AccountInv /\ [AccountNext]_accountVars => AccountInv'
      BY PrepareStep, SelectStep, StartStep, WriteStep, StopLoginStep, RecordStep, CancelStep,
         VerifyReadStep, RemoveStep, AskLogoutStep, LogoutStep, CancelPendingStep, LaunchFailsStep,
         ResolveStep, OutsideStep, QuietStep, LaunchStep DEF AccountNext
<1>3. AccountInv => ConfirmedAccountIsUsed
      BY DEF AccountInv, PendingIsVerified, AppliedIsAvailable, Shows, ConfirmedAccountIsUsed
<1> QED BY <1>1, <1>2, <1>3, PTL DEF AccountSpec

--------------------------------------------------------------------------
(* What is applied is what a runtime proved. *)

\* The saved selection always names an applied connection (stateSchema, 65).
NamesApplied == "applied" \in DOMAIN saved

\* What an update that is no completion leaves as it was.
KeepsApplied == saved'.applied = saved.applied /\ NamesApplied'

\* The completion of an activation applies what the runtime of l proved.
AppliesProven ==
    /\ \E l \in Owner : launchers[l].connection = saved'.applied
    /\ NamesApplied'

--------------------------------------------------------------------------
\* The updates of a candidate: prepare, login, cancellation (159, 205, 504).
LEMMA CandidateKeeps ==
    ASSUME NamesApplied, NEW p \in Profiles,
           \/ \E kind \in Kinds : Prepare(p, kind)
           \/ SelectOwnedProfile(p) \/ StartLogin(p) \/ StopApiLogin(p)
           \/ LoginExits(p) \/ RecordExit(p) \/ CancelCandidate(p)
           \/ \E account \in Accounts : LoginWrites(p, account)
    PROVE  KeepsApplied
<1> USE DEF NamesApplied, KeepsApplied
<1>0. ASSUME NEW status, Saves(WithStatus(status)) PROVE KeepsApplied
      BY <1>0 DEF Saves, WithStatus
<1>1. ASSUME NEW kind \in Kinds, Prepare(p, kind) PROVE KeepsApplied
      BY <1>1 DEF Prepare, Saves
<1>2. CASE SelectOwnedProfile(p)
      BY <1>2 DEF SelectOwnedProfile, Saves
<1>3. CASE StartLogin(p)
      BY <1>0, <1>3 DEF StartLogin
<1>4. CASE StopApiLogin(p)
      BY <1>0, <1>4 DEF StopApiLogin
<1>5. CASE LoginExits(p)
      BY <1>5 DEF LoginExits
<1>6. CASE RecordExit(p)
      BY <1>0, <1>6 DEF RecordExit
<1>7. CASE CancelCandidate(p)
      BY <1>7 DEF CancelCandidate, Saves
<1>8. ASSUME NEW account \in Accounts, LoginWrites(p, account) PROVE KeepsApplied
      BY <1>8 DEF LoginWrites
<1> QED BY <1>1, <1>2, <1>3, <1>4, <1>5, <1>6, <1>7, <1>8

\* Verification, staging and removal (375, 450, 524, 697, 732).
LEMMA ChoiceKeeps ==
    ASSUME NamesApplied,
           \/ \E p \in Profiles : VerifyReads(p) \/ RemoveApiKey(p) \/ AskLogout(p) \/ LogoutTakesEffect(p)
           \/ \E c \in Connections : StageReads(c)
           \/ VerifySaves \/ StageSaves \/ CancelPending
    PROVE  KeepsApplied
<1> USE DEF NamesApplied, KeepsApplied
<1>1. ASSUME NEW p \in Profiles, VerifyReads(p) PROVE KeepsApplied
      BY <1>1 DEF VerifyReads
<1>2. ASSUME NEW p \in Profiles, RemoveApiKey(p) PROVE KeepsApplied
      BY <1>2 DEF RemoveApiKey, Saves
<1>3. ASSUME NEW p \in Profiles, AskLogout(p) PROVE KeepsApplied
      BY <1>3 DEF AskLogout, Saves
<1>4. ASSUME NEW p \in Profiles, LogoutTakesEffect(p) PROVE KeepsApplied
      BY <1>4 DEF LogoutTakesEffect, Saves
<1>5. ASSUME NEW c \in Connections, StageReads(c) PROVE KeepsApplied
      BY <1>5 DEF StageReads
<1>6. CASE VerifySaves
      BY <1>6 DEF VerifySaves, SavesAndEnds
<1>7. CASE StageSaves
      BY <1>7 DEF StageSaves, SavesAndEnds
<1>8. CASE CancelPending
      BY <1>8 DEF CancelPending, Saves
<1> QED BY <1>1, <1>2, <1>3, <1>4, <1>5, <1>6, <1>7, <1>8

\* completeActivation, for the launcher that was seen to hold the lock (624).
LEMMA CompletionApplies ==
    ASSUME NamesApplied, NEW l \in Owner, Proves(l), Completes
    PROVE  AppliesProven
<1>1. saved'.applied = saved.activation.to /\ NamesApplied'
      BY DEF NamesApplied, Completes, Saves, Applied
<1>2. launchers[l].connection = saved.activation.to
      BY DEF Proves
<1> QED BY <1>1, <1>2 DEF AppliesProven

\* The launch: only a readiness that is seen and the adoption complete it
\* (startUnlocked, 1812; adoptExistingRuntime, 2150).
LEMMA LaunchApplies ==
    ASSUME NamesApplied,
           \/ \E l \in Launchers : Adopt(l) \/ LauncherReads(l) \/ LauncherLocks(l) \/ LauncherEnds(l)
           \/ \E busy \in BOOLEAN : Relaunch(busy)
           \/ RestartReads \/ RestartSaves \/ Ready \/ LaunchFails \/ StopRuntime \/ ResolveStopped
    PROVE  KeepsApplied \/ AppliesProven
<1> USE DEF NamesApplied, KeepsApplied
<1>1. ASSUME NEW l \in Launchers, Adopt(l) PROVE KeepsApplied \/ AppliesProven
      BY <1>1, CompletionApplies DEF Adopt
<1>2. ASSUME NEW l \in Launchers, LauncherReads(l) \/ LauncherLocks(l) \/ LauncherEnds(l) PROVE KeepsApplied
      BY <1>2 DEF LauncherReads, LauncherLocks, LauncherEnds
<1>3. ASSUME NEW busy \in BOOLEAN, Relaunch(busy) PROVE KeepsApplied
      BY <1>3 DEF Relaunch
<1>4. CASE RestartReads
      BY <1>4 DEF RestartReads
<1>5. CASE RestartSaves
      BY <1>5 DEF RestartSaves, SavesAndEnds
<1>6. CASE Ready
      BY <1>6, CompletionApplies DEF Ready
<1>7. CASE LaunchFails
      BY <1>7 DEF LaunchFails, Saves
<1>8. CASE StopRuntime
      BY <1>8 DEF StopRuntime
<1>9. CASE ResolveStopped
      BY <1>9 DEF ResolveStopped, Saves
<1> QED BY <1>1, <1>2, <1>3, <1>4, <1>5, <1>6, <1>7, <1>8, <1>9

\* Every step keeps what is applied, or applies what the owner proved.
LEMMA AccountStep ==
    ASSUME NamesApplied, [AccountNext]_accountVars
    PROVE  KeepsApplied \/ AppliesProven
<1>1. CASE HelperEnds \/ OutsideChanges \/ UNCHANGED accountVars
      BY <1>1 DEF HelperEnds, OutsideChanges, accountVars, NamesApplied, KeepsApplied
<1> QED BY <1>1, CandidateKeeps, ChoiceKeeps, LaunchApplies DEF AccountNext

\* A connection becomes the applied one when the runtime that holds the lock
\* works with it (completeActivation, 625): for every number of profiles,
\* launchers, logins, activations and ends of the helper.
THEOREM AppliedByProof == AccountSpec => AppliedIsProven
<1>1. AccountInit => NamesApplied
      BY DEF AccountInit, NamesApplied
<1>2. NamesApplied /\ [AccountNext]_accountVars => NamesApplied'
      BY AccountStep DEF KeepsApplied, AppliesProven
<1>3. NamesApplied /\ [AccountNext]_accountVars =>
        [saved'.applied # saved.applied =>
            \E l \in Owner : launchers[l].connection = saved'.applied]_accountVars
      BY AccountStep DEF KeepsApplied, AppliesProven
<1> QED BY <1>1, <1>2, <1>3, PTL DEF AccountSpec, AppliedIsProven
=============================================================================
