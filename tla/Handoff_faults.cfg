SPECIFICATION HandoffSpec
CONSTANTS
    j1 = j1
    j2 = j2
    q1 = q1
    c1 = c1
    c2 = c2
    Ids <- MixedIds
    Retained = {j1}
    Lanes = {"execution", "metadata"}
    LaneOf <- MixedLaneOf
    Capacity <- Roomy
    Prints = {p1}
    Controllers = {c1, c2}
    Session <- TwoSessions
    Interactions = {}
    Outcomes = {ok}
    Notices = {}
    EventCapacity = 2
    AuxCapacity = 2
    BurstLimit = 1
    TombstoneCapacity = 2
    MaxSafe = 4
    MaxWire = 0
    Protected = TRUE
    AckWindow = 2
    AckReserve = 1
    MaxPending = 2
    MaxDrops = 1
    MaxCrashes = 1
    MaxExits = 1
    MaxSent = 1
    None = None
INVARIANTS AcknowledgedIsCommitted LostIsLost AnsweredIsReleased NothingSkipped
PROPERTIES ImplementsTurnAuthority
CHECK_DEADLOCK FALSE
