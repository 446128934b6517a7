-------------------------- MODULE AccountSelection --------------------------
(* Which account Codex works with: the saved selection                       *)
(* (codexAuthSelection.ts), the login and logout processes that write a       *)
(* profile, and the launch that puts a staged connection to use               *)
(* (macosHelperServer.ts; the launcher, start-codex-mcp-bridge.mjs).          *)
(*                                                                           *)
(* Every update is a read, a change and a save under one lock, so it is one   *)
(* step.  The revision is what a call has seen: it is kept as the mark, on    *)
(* every call under way, that something was saved since the call read.  A     *)
(* request that already names an old revision changes nothing.  The keys,     *)
(* the address, the workspace and the billing of a login are one account.     *)
EXTENDS Naturals, FiniteSets, Absence

CONSTANTS
    Profiles,       \* bridge-owned profiles
    Owned,          \* those saved earlier, with the login of one account each
    Homes,          \* other Codex homes the bridge has used (knownHomes)
    Accounts,
    Clis,           \* installed CLIs: command and context fingerprint
    Launchers,      \* launcher processes that may be alive at a time
    MaxActivations, \* bound: activations begun
    MaxLogins,      \* bound: login processes started
    MaxHelperEnds,  \* bound: helpers that end
    MaxOutside      \* bound: changes the user makes with another Codex

\* The profile the user is working on (candidateSchema).
Candidates ==
    [id : Profiles, reused : BOOLEAN, account : Accounts \cup {None}, cli : Clis \cup {None},
     status : {"prepared", "login-started", "login-unconfirmed", "login-completed", "login-failed", "verified"}]

ASSUME AccountAssumption ==
    /\ MaxActivations \in Nat /\ MaxLogins \in Nat /\ MaxHelperEnds \in Nat /\ MaxOutside \in Nat
    /\ Owned \subseteq Profiles
    /\ Profiles \cap ({"shared", "disconnected"} \cup Homes) = {} /\ {"shared", "disconnected"} \cap Homes = {}
    /\ None \notin Profiles /\ None \notin Candidates

VARIABLES
    saved,      \* auth-selection.json
    credential, \* what auth.json of every place holds: an account, or None
    cli,        \* the CLI the manager resolves
    login,      \* login process of a profile: none, running, or its exit that is not recorded yet
    tracked,    \* candidateLoginProcesses
    stopped,    \* API key logins that were asked to stop
    leaving,    \* the logout an App Server was asked for and may still carry out, of every profile
    inFlight,   \* requests between their read and their save
    helper,     \* the helper's lifecycle work and the launcher it manages
    launchers,  \* launcher processes
    forgotten,    \* history: profiles whose login was under way when another connection was applied
    spent       \* what the bounds count

accountVars == <<saved, credential, cli, login, tracked, stopped, leaving, inFlight, helper, launchers, forgotten,
                 spent>>

Kinds == {"bridge-chatgpt", "bridge-api"}
Outside == {"shared"} \cup Homes
Connections == Outside \cup {"disconnected"} \cup Profiles
Operations == {"verify", "stage", "activate"}

Away == [phase |-> "none", id |-> None, connection |-> None, generation |-> 0]
Idle == [phase |-> "idle", busy |-> FALSE, managed |-> None, id |-> None]

AccountInit ==
    /\ saved = [generation |-> 0, applied |-> "shared", shown |-> None, pending |-> None, proof |-> None,
                candidate |-> None, activation |-> None,
                profiles |-> [p \in Profiles |->
                    IF p \in Owned THEN [kind |-> "bridge-chatgpt", status |-> "available"]
                    ELSE [kind |-> None, status |-> "unused"]]]
    /\ credential \in [Outside \cup Profiles -> Accounts \cup {None}]
    /\ \A p \in Profiles : credential[p] = None <=> p \notin Owned
    /\ cli \in Clis
    /\ login = [p \in Profiles |-> "none"] /\ tracked = {} /\ stopped = {}
    /\ leaving = [p \in Profiles |-> "none"]
    /\ inFlight = [o \in Operations |-> None]
    /\ helper = Idle /\ launchers = [l \in Launchers |-> Away]
    /\ forgotten = {}
    /\ spent = [activations |-> 0, logins |-> 0, ends |-> 0, outside |-> 0]

--------------------------------------------------------------------------
(* The saved selection. *)

KindOf(c) == IF c \in Profiles THEN saved.profiles[c].kind ELSE IF c \in Homes THEN "external" ELSE c
IsCandidate(p) == saved.candidate # None /\ saved.candidate.id = p

\* probeCandidate and probeShared: an account that is signed in, or an error.
Probes(c) == c # "disconnected" => credential[c] # None
Account(c) == IF c = "disconnected" THEN None ELSE credential[c]

Staled(o) == IF inFlight[o] = None THEN None ELSE [inFlight[o] EXCEPT !.stale = TRUE]
Saves(selection) == saved' = selection /\ inFlight' = [o \in Operations |-> Staled(o)]
Reads(o, c) ==
    inFlight' = [inFlight EXCEPT ![o] = [of |-> c, account |-> Account(c), cli |-> cli, stale |-> FALSE]]
EndsRequest(o) == inFlight' = [inFlight EXCEPT ![o] = None]
SavesAndEnds(o, selection) ==
    saved' = selection /\ inFlight' = [q \in Operations |-> IF q = o THEN None ELSE Staled(q)]

\* codexRuntime: requests other than status and auth-verify are refused while
\* a lifecycle operation is carried out; a restart after an exit is not one.
Admits == ~helper.busy /\ saved.activation = None

NewCandidate(p, reused) == [id |-> p, reused |-> reused, status |-> "prepared", account |-> None, cli |-> None]
Attempted == {"login-started", "login-unconfirmed"}
WithStatus(status) ==
    [saved EXCEPT !.candidate = [@ EXCEPT !.status = status, !.account = None, !.cli = None]]

\* prepare: a new profile with a directory of its own.
Prepare(p, kind) ==
    /\ Admits /\ saved.pending = None /\ saved.candidate = None /\ saved.profiles[p].status = "unused"
    /\ Saves([saved EXCEPT !.candidate = NewCandidate(p, FALSE),
                           !.profiles[p] = [kind |-> kind, status |-> "available"]])
    /\ UNCHANGED <<credential, cli, login, tracked, stopped, leaving, helper, launchers, forgotten, spent>>

\* selectOwnedProfile
SelectOwnedProfile(p) ==
    /\ Admits /\ saved.pending = None /\ saved.candidate = None
    /\ saved.profiles[p].status = "available" /\ p \notin tracked /\ saved.applied # p
    /\ Saves([saved EXCEPT !.candidate = NewCandidate(p, TRUE)])
    /\ UNCHANGED <<credential, cli, login, tracked, stopped, leaving, helper, launchers, forgotten, spent>>

--------------------------------------------------------------------------
(* A login: a process of its own that writes the profile until it has ended. *)

\* startChatGptLogin and setApiKey: the intent is saved before the process is
\* started.  A start that fails is saved under the same lock.
MayLogIn(p) ==
    /\ Admits /\ IsCandidate(p) /\ ~saved.candidate.reused /\ saved.pending # p
    /\ saved.candidate.status \in {"prepared", "login-failed"} /\ p \notin tracked
StartLogin(p) ==
    /\ MayLogIn(p) /\ spent.logins < MaxLogins
    /\ spent' = [spent EXCEPT !.logins = @ + 1]
    /\ \/ /\ Saves(WithStatus("login-started"))
          /\ login' = [login EXCEPT ![p] = "running"] /\ tracked' = tracked \cup {p}
       \/ Saves(WithStatus("login-failed")) /\ UNCHANGED <<login, tracked>>
    /\ UNCHANGED <<credential, cli, stopped, leaving, helper, launchers, forgotten>>

\* Codex writes the login it was given, at any time while it runs.
LoginWrites(p, account) ==
    /\ login[p] = "running" /\ credential' = [credential EXCEPT ![p] = account]
    /\ UNCHANGED <<saved, cli, login, tracked, stopped, leaving, inFlight, helper, launchers, forgotten, spent>>

\* The stop of a key login, after 30 seconds or an error of its pipe: the
\* signal is sent, and the outcome is open until the exit is seen.
StopApiLogin(p) ==
    /\ login[p] = "running" /\ p \in tracked \ stopped /\ saved.profiles[p].kind = "bridge-api"
    /\ stopped' = stopped \cup {p}
    /\ \/ /\ IsCandidate(p) /\ saved.candidate.status = "login-started"
          /\ Saves(WithStatus("login-unconfirmed"))
       \/ UNCHANGED <<saved, inFlight>>
    /\ UNCHANGED <<credential, cli, login, tracked, leaving, helper, launchers, forgotten, spent>>

\* The exit.  The record of a ChatGPT login is deleted with it, that of a key
\* login once its outcome was saved.
LoginExits(p) ==
    /\ login[p] = "running"
    /\ \E code \in {"succeeded", "failed"} :
          login' = [login EXCEPT ![p] = IF p \in tracked THEN code ELSE "none"]
    /\ tracked' = IF saved.profiles[p].kind = "bridge-chatgpt" THEN tracked \ {p} ELSE tracked
    /\ UNCHANGED <<saved, credential, cli, stopped, leaving, inFlight, helper, launchers, forgotten, spent>>

\* The exit handler's update; one that fails leaves the attempt as it was saved.
Completed(p) == login[p] = "succeeded" /\ p \notin stopped
Open(p) == IF saved.profiles[p].kind = "bridge-api" THEN Attempted ELSE {"login-started"}
RecordExit(p) ==
    /\ login[p] \in {"succeeded", "failed"}
    /\ \/ /\ IsCandidate(p) /\ saved.candidate.status \in Open(p)
          /\ Saves(WithStatus(IF Completed(p) THEN "login-completed" ELSE "login-failed"))
       \/ UNCHANGED <<saved, inFlight>>
    /\ login' = [login EXCEPT ![p] = "none"] /\ tracked' = tracked \ {p} /\ stopped' = stopped \ {p}
    /\ UNCHANGED <<credential, cli, leaving, helper, launchers, forgotten, spent>>

\* cancelCandidate: a profile whose login may still write is not offered again.
\* The signal that follows does not show that the process has ended.
Spoilt(p) == IF saved.candidate.status \in Attempted /\ saved.profiles[p].status = "available"
             THEN "login-unconfirmed" ELSE saved.profiles[p].status
CancelCandidate(p) ==
    /\ Admits /\ IsCandidate(p) /\ saved.pending # p
    /\ Saves([saved EXCEPT !.profiles[p].status = Spoilt(p), !.candidate = None])
    /\ UNCHANGED <<credential, cli, login, tracked, stopped, leaving, helper, launchers, forgotten, spent>>

--------------------------------------------------------------------------
(* Verification, staging and removal. *)

\* verify: the profile is read in an App Server of its own, between the read
\* of the selection and its update.
Verifiable(p) == IsCandidate(p) /\ saved.pending # p /\ saved.candidate.status \notin Attempted
VerifyReads(p) ==
    /\ saved.activation = None /\ Verifiable(p) /\ inFlight["verify"] = None /\ Probes(p)
    /\ Reads("verify", p)
    /\ UNCHANGED <<saved, credential, cli, login, tracked, stopped, leaving, helper, launchers, forgotten, spent>>
UnchangedIgnored(o) == TRUE
Unchanged(o) == ~inFlight[o].stale
VerifySaves ==
    /\ inFlight["verify"] # None
    /\ LET call == inFlight["verify"] IN
       IF Unchanged("verify") /\ IsCandidate(call.of)
       THEN SavesAndEnds("verify", [saved EXCEPT !.candidate = [@ EXCEPT !.status = "verified",
                                    !.account = call.account, !.cli = call.cli]])
       ELSE EndsRequest("verify") /\ UNCHANGED saved
    /\ UNCHANGED <<credential, cli, login, tracked, stopped, leaving, helper, launchers, forgotten, spent>>

\* stage: what the user confirms is the account the probe has just seen, which
\* for a profile has to be the one that was verified, with the same CLI.
StageReads(c) ==
    /\ Admits /\ saved.pending = None /\ saved.applied # c /\ inFlight["stage"] = None
    /\ c \in Profiles => IsCandidate(c)
    /\ Probes(c) /\ Reads("stage", c)
    /\ UNCHANGED <<saved, credential, cli, login, tracked, stopped, leaving, helper, launchers, forgotten, spent>>
Verified(call) ==
    call.of \in Profiles =>
        /\ IsCandidate(call.of) /\ saved.candidate.status = "verified"
        /\ saved.candidate.cli = call.cli /\ saved.candidate.account = call.account
StageSaves ==
    /\ inFlight["stage"] # None
    /\ LET call == inFlight["stage"] IN
       IF Unchanged("stage") /\ saved.activation = None /\ Verified(call)
       THEN SavesAndEnds("stage", [saved EXCEPT !.pending = call.of,
                                   !.proof = [account |-> call.account, cli |-> call.cli]])
       ELSE EndsRequest("stage") /\ UNCHANGED saved
    /\ UNCHANGED <<credential, cli, login, tracked, stopped, leaving, helper, launchers, forgotten, spent>>

\* cancelPending; the candidate stays.
CancelPending ==
    /\ Admits /\ saved.pending # None
    /\ Saves([saved EXCEPT !.pending = None, !.proof = None])
    /\ UNCHANGED <<credential, cli, login, tracked, stopped, leaving, helper, launchers, forgotten, spent>>

\* inactiveProfile
Inactive(p) ==
    /\ Admits /\ saved.profiles[p].status = "available"
    /\ p \notin {saved.applied, saved.pending} /\ ~IsCandidate(p)

\* removeApiKey: the file is deleted under the lock, before the save.
RemoveApiKey(p) ==
    /\ Inactive(p) /\ saved.profiles[p].kind = "bridge-api"
    /\ credential' = [credential EXCEPT ![p] = None]
    /\ \/ Saves([saved EXCEPT !.profiles[p].status = "removed"])
       \/ UNCHANGED <<saved, inFlight>>
    /\ UNCHANGED <<cli, login, tracked, stopped, leaving, helper, launchers, forgotten, spent>>

\* logoutOwnedChatGpt: the intent is saved before the request; the reply, or
\* the helper, may be lost, and the request still carried out.
AskLogout(p) ==
    /\ Inactive(p) /\ saved.profiles[p].kind = "bridge-chatgpt"
    /\ Saves([saved EXCEPT !.profiles[p].status = "logout-unconfirmed"])
    /\ leaving' = [leaving EXCEPT ![p] = "awaited"]
    /\ UNCHANGED <<credential, cli, login, tracked, stopped, helper, launchers, forgotten, spent>>
LogoutTakesEffect(p) ==
    /\ leaving[p] # "none" /\ leaving' = [leaving EXCEPT ![p] = "none"]
    /\ credential' = [credential EXCEPT ![p] = None]
    /\ \/ leaving[p] = "awaited" /\ Saves([saved EXCEPT !.profiles[p].status = "removed"])
       \/ UNCHANGED <<saved, inFlight>>
    /\ UNCHANGED <<cli, login, tracked, stopped, helper, launchers, forgotten, spent>>

--------------------------------------------------------------------------
(* The launch. *)

\* revalidatePending, for beginActivation: the account is the staged one still.
Revalidates ==
    /\ Probes(saved.pending) /\ Account(saved.pending) = saved.proof.account
    /\ saved.pending # "disconnected" => saved.proof.cli = cli
    /\ saved.pending \in Profiles =>
          IsCandidate(saved.pending) /\ saved.candidate.status = "verified" /\ saved.candidate.cli = cli

Owner == {l \in DOMAIN launchers : launchers[l].phase = "running"}
Spawned(id) ==
    \E l \in Launchers :
        /\ launchers[l] = Away
        /\ launchers' = [launchers EXCEPT ![l] = [Away EXCEPT !.phase = "spawned", !.id = id]]
        /\ helper' = [helper EXCEPT !.phase = "waiting", !.managed = l, !.id = id]

\* completeActivation: the runtime that is ready has to prove the connection.
ProvesKind(l) == KindOf(launchers[l].connection) = KindOf(saved.activation.to)
                 /\ launchers[l].generation = saved.activation.generation
Proves(l) == launchers[l].connection = saved.activation.to
             /\ launchers[l].generation = saved.activation.generation
Applied ==
    [saved EXCEPT !.applied = saved.activation.to, !.shown = saved.proof.account,
                  !.generation = saved.activation.generation,
                  !.pending = None, !.proof = None, !.candidate = None, !.activation = None]
Completes ==
    /\ Saves(Applied)
    /\ forgotten' = IF saved.candidate # None /\ saved.candidate.status \in Attempted
                  THEN forgotten \cup {saved.candidate.id} ELSE forgotten

\* adoptExistingRuntime
Adopt(l) ==
    /\ helper.phase = "idle" /\ helper.managed = None /\ l \in Owner
    /\ \/ saved.activation = None /\ UNCHANGED <<saved, inFlight, forgotten>>
       \/ saved.activation # None /\ Proves(l) /\ Completes
    /\ helper' = [helper EXCEPT !.managed = l]
    /\ UNCHANGED <<credential, cli, login, tracked, stopped, leaving, launchers, spent>>

\* startUnlocked without a restart: what is applied is launched again.
Relaunch(busy) ==
    /\ helper.phase = "idle" /\ helper.managed = None /\ Owner = {} /\ saved.activation = None
    /\ \E l \in Launchers :
          /\ launchers[l] = Away
          /\ launchers' = [launchers EXCEPT ![l] = [Away EXCEPT !.phase = "spawned"]]
          /\ helper' = [phase |-> "waiting", busy |-> busy, managed |-> l, id |-> None]
    /\ UNCHANGED <<saved, credential, cli, login, tracked, stopped, leaving, inFlight, forgotten, spent>>

\* A restart, after the runtime was stopped: beginActivation reads and probes.
RestartReads ==
    /\ helper.phase = "idle" /\ helper.managed = None /\ Owner = {} /\ saved.activation = None
    /\ saved.pending # None /\ Revalidates /\ spent.activations < MaxActivations
    /\ spent' = [spent EXCEPT !.activations = @ + 1]
    /\ Reads("activate", saved.pending)
    /\ helper' = [helper EXCEPT !.phase = "activating", !.busy = TRUE]
    /\ UNCHANGED <<saved, credential, cli, login, tracked, stopped, leaving, launchers, forgotten>>

\* The activation is saved before the launcher is started; failActivation
\* takes it back only when there is no process.
Activation == [id |-> spent.activations, to |-> saved.pending,
               generation |-> saved.generation + 1, status |-> "starting"]
RestartSaves ==
    /\ helper.phase = "activating" /\ inFlight["activate"] # None
    /\ \/ /\ Unchanged("activate")
          /\ SavesAndEnds("activate", [saved EXCEPT !.activation = Activation])
          /\ Spawned(spent.activations)
       \/ Unchanged("activate") /\ SavesAndEnds("activate", saved) /\ helper' = Idle /\ UNCHANGED launchers
       \/ ~Unchanged("activate") /\ EndsRequest("activate") /\ helper' = Idle /\ UNCHANGED <<saved, launchers>>
    /\ UNCHANGED <<credential, cli, login, tracked, stopped, leaving, forgotten, spent>>

\* waitForManagedRuntime, and the proof.
Ready ==
    /\ helper.phase = "waiting" /\ helper.managed \in Owner
    /\ \/ helper.id = None /\ UNCHANGED <<saved, inFlight, forgotten>>
       \/ /\ helper.id # None /\ saved.activation # None /\ saved.activation.id = helper.id
          /\ Proves(helper.managed) /\ Completes
    /\ helper' = [Idle EXCEPT !.managed = helper.managed]
    /\ UNCHANGED <<credential, cli, login, tracked, stopped, leaving, launchers, spent>>

\* The launch failed, or its proof: the launcher is ended and waited for, and
\* the activation stays as one whose outcome is not known.
LaunchFails ==
    /\ helper.phase = "waiting"
    /\ launchers' = [launchers EXCEPT ![helper.managed] = Away]
    /\ IF helper.id # None /\ saved.activation # None
       THEN Saves([saved EXCEPT !.activation.status = "uncertain"])
       ELSE UNCHANGED <<saved, inFlight>>
    /\ helper' = Idle
    /\ UNCHANGED <<credential, cli, login, tracked, stopped, leaving, forgotten, spent>>

StopRuntime ==
    /\ helper.phase = "idle" /\ helper.managed # None
    /\ launchers' = [launchers EXCEPT ![helper.managed] = Away] /\ helper' = Idle
    /\ UNCHANGED <<saved, credential, cli, login, tracked, stopped, leaving, inFlight, forgotten, spent>>

\* reconcileStoppedAuthActivation, under the runtime lock: no process is
\* managed and none has the lock.
ResolveStopped ==
    /\ helper.phase = "idle" /\ helper.managed = None /\ Owner = {} /\ saved.activation # None
    /\ Saves([saved EXCEPT !.activation = None])
    /\ UNCHANGED <<credential, cli, login, tracked, stopped, leaving, helper, launchers, forgotten, spent>>

\* The launcher: desiredAuthSelection when its environment is loaded, the
\* runtime lock later.
Desired(l) ==
    LET activation == saved.activation IN
    IF activation # None /\ activation.status = "starting" /\ launchers[l].id = activation.id
    THEN [connection |-> activation.to, generation |-> activation.generation]
    ELSE IF activation # None /\ (activation.status = "uncertain" \/ launchers[l].id # None) THEN None
    ELSE [connection |-> saved.applied, generation |-> saved.generation]
LauncherReads(l) ==
    /\ launchers[l].phase = "spawned"
    /\ launchers' = [launchers EXCEPT ![l] =
          IF Desired(l) = None THEN [@ EXCEPT !.phase = "ended"]
          ELSE [phase |-> "loaded", id |-> @.id, connection |-> Desired(l).connection,
                generation |-> Desired(l).generation]]
    /\ UNCHANGED <<saved, credential, cli, login, tracked, stopped, leaving, inFlight, helper, forgotten, spent>>
LauncherLocks(l) ==
    /\ launchers[l].phase = "loaded"
    /\ launchers' = [launchers EXCEPT ![l].phase = IF Owner = {} THEN "running" ELSE "ended"]
    /\ UNCHANGED <<saved, credential, cli, login, tracked, stopped, leaving, inFlight, helper, forgotten, spent>>
\* A launcher ends by itself; observeExit forgets the one that is managed.
LauncherEnds(l) ==
    /\ launchers[l].phase # "none" /\ ~(helper.phase = "waiting" /\ helper.managed = l)
    /\ launchers' = [launchers EXCEPT ![l] = Away]
    /\ helper' = IF helper.managed = l THEN [helper EXCEPT !.managed = None] ELSE helper
    /\ UNCHANGED <<saved, credential, cli, login, tracked, stopped, leaving, inFlight, forgotten, spent>>

--------------------------------------------------------------------------
(* The surroundings. *)

\* The helper ends: what it kept in memory is lost, its processes are not.
HelperEnds ==
    /\ spent.ends < MaxHelperEnds /\ spent' = [spent EXCEPT !.ends = @ + 1]
    /\ tracked' = {} /\ stopped' = {} /\ inFlight' = [o \in Operations |-> None] /\ helper' = Idle
    /\ login' = [p \in Profiles |-> IF login[p] = "running" THEN "running" ELSE "none"]
    /\ leaving' = [p \in Profiles |-> IF leaving[p] = "awaited" THEN "orphaned" ELSE leaving[p]]
    /\ UNCHANGED <<saved, credential, cli, launchers, forgotten>>

\* Another login in the user's own Codex, or another CLI.
OutsideChanges ==
    /\ spent.outside < MaxOutside /\ spent' = [spent EXCEPT !.outside = @ + 1]
    /\ \/ \E c \in Outside, account \in Accounts \cup {None} :
             credential' = [credential EXCEPT ![c] = account] /\ UNCHANGED cli
       \/ cli' \in Clis /\ UNCHANGED credential
    /\ UNCHANGED <<saved, login, tracked, stopped, leaving, inFlight, helper, launchers, forgotten>>

AccountNext ==
    \/ \E p \in Profiles :
          \/ \E kind \in Kinds : Prepare(p, kind)
          \/ SelectOwnedProfile(p) \/ StartLogin(p) \/ StopApiLogin(p) \/ LoginExits(p) \/ RecordExit(p)
          \/ \E account \in Accounts : LoginWrites(p, account)
          \/ CancelCandidate(p) \/ VerifyReads(p) \/ RemoveApiKey(p) \/ AskLogout(p) \/ LogoutTakesEffect(p)
    \/ \E c \in Connections : StageReads(c)
    \/ VerifySaves \/ StageSaves \/ CancelPending
    \/ \E l \in Launchers : Adopt(l) \/ LauncherReads(l) \/ LauncherLocks(l) \/ LauncherEnds(l)
    \/ \E busy \in BOOLEAN : Relaunch(busy)
    \/ RestartReads \/ RestartSaves \/ Ready \/ LaunchFails \/ StopRuntime \/ ResolveStopped
    \/ HelperEnds \/ OutsideChanges

AccountSpec == AccountInit /\ [][AccountNext]_accountVars

--------------------------------------------------------------------------
\* The account that was shown and confirmed is the one in the profile, from its
\* staging until something else is applied: no cancelled, stopped or lost login
\* of an earlier attempt, and no logout whose reply was lost, changes it
\* afterwards.  The exception is what completeActivation leaves behind (line
\* 651): it forgets the candidate of another profile without regard to its login.
ConfirmedAccountIsUsed ==
    /\ saved.pending \in Profiles \ forgotten => credential[saved.pending] = saved.proof.account
    /\ saved.applied \in Profiles \ forgotten => credential[saved.applied] = saved.shown

\* A connection becomes the applied one when the runtime that holds the lock
\* works with it.
AppliedIsProven ==
    [][saved'.applied # saved.applied =>
          \E l \in Owner : launchers[l].connection = saved'.applied]_accountVars
=============================================================================
