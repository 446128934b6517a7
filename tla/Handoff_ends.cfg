SPECIFICATION Spec
CONSTANTS
    j1 = j1
    q1 = q1
    q2 = q2
    c1 = c1
    c2 = c2
    Ids <- OneJob
    Retained = {j1}
    Lanes = {"execution", "metadata"}
    LaneOf <- OneJobLaneOf
    Capacity <- Roomy
    Prints = {p1}
    Controllers = {c1, c2}
    Session <- TwoSessions
    Interactions = {}
    Outcomes = {ok}
    Notices = {}
    EventCapacity = 2
    AuxCapacity = 2
    BurstLimit = 1
    TombstoneCapacity = 2
    MaxSafe = 4
    MaxWire = 0
    Protected = TRUE
    AckWindow = 2
    AckReserve = 1
    MaxPending = 2
    MaxDrops = 1
    MaxCrashes = 1
    MaxExits = 1
    MaxSent = 1
    None = None
PROPERTIES JobSettles QueryEnded
CHECK_DEADLOCK FALSE
