SPECIFICATION Spec
CONSTANTS
    None = None
    r1 = r1
    r2 = r2
    x = x
    y = y
    Revisions <- Accounts
    Views = {v1, v2}
    Concurrency = 1
    Projects <- TwoProjects
    Legacy = {y}
    MaxArchives = 1
    MaxMishaps = 1
    Agents = {1, 2}
    Rechecks = {1}
    Attempts = 2
    DueLimit = 1
    DueSends = 1
    Sends = 2
    SweepTargets = 2
    DirtyLimit = 1
    MaxIncidents = 1
    MaxRequests = 0
    MaxEnds = 1
INVARIANTS NoOtherAccount
PROPERTIES PendingIsTold ArchivesComplete ProblemIsHandled
CHECK_DEADLOCK FALSE
