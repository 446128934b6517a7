SPECIFICATION Spec
CONSTANTS
    None = None
    id1 = id1
    id2 = id2
    single = single
    Inputs = {q1}
    Cards = {c1, c2}
    CardAttempts = {1, 2}
    Waits = {}
    Lease = 1
    Retry = 1
    Grace = 1
    Review = 1
    MaxTries = 2
    MaxClaims = 2
    MaxReviews = 0
    MaxRelayTime = 1
    Jobs = {j1, j2}
    Receipted = {j1}
    Results = {"interrupted"}
    MaxStops = 2
    MaxFaults = 1
    Threads = {t1, t2}
    Persistent = {t1, t2}
    MaxWorks = 2
    MaxHandoffs = 1
    MaxBreaks = 1
    MaxFailedStarts = 1
    Agents = {1, 2}
    Rechecks = {}
    Attempts = 2
    DueLimit = 1
    DueSends = 1
    Sends = 2
    SweepTargets = 2
    DirtyLimit = 1
    MaxIncidents = 1
    MaxRequests = 1
    MaxEnds = 1
    Procs = {1, 2, 3}
    CurrentSchema = 3
    MaxCrashes = 1
    Identities = {id1, id2}
    Binding <- Bound
    Unbound = Unbound
    MaxTime = 4
    Launched = id1
    MaxWork = 2
    Scopes = {s1, s2, s3}
    Capacity = 3
    PerScopeCapacity = 2
    MaxOffers = 6
    h1 = h1
    h2 = h2
    l1 = l1
    l2 = l2
    signedIn = signedIn
    Profiles = {p1}
    Owned = {}
    Homes = {}
    Accounts = {signedIn, other}
    Clis = {cli1}
    Launchers = {l0}
    MaxActivations = 1
    MaxLogins = 1
    MaxHelperEnds = 1
    MaxOutside = 0
    StartBudget = 2
    MaxReservations = 2
    MaxHelperCrashes = 1
    MaxLauncherExits = 1
    Requests = {r1, r2}
    Choices = {x, y}
    MaxPrunes = 1
INVARIANTS
    SentOnce DueIsIndexed
    EndIsTrue OutcomeIsKept StopIsProven
    ReleasedIsUnrouted ReleaseEndsNoTurn
    BudgetIsKept
    RecoveryPointKept AdmittedIsKept
    OrdinaryDrainHolds ClosedGateIsHeld SignalledIsIdle
    NothingStranded NoSecondTurn
    ConfirmedAccountIsUsed
    DeliveryIsTrue
PROPERTIES
    ReceiptKept BudgetNeverRenewed AppliedIsProven EndedStaysEnded AttemptIsAuthorized
CHECK_DEADLOCK FALSE
