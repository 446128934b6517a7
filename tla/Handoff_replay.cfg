SPECIFICATION HandoffSpec
CONSTANTS
    j1 = j1
    j2 = j2
    q1 = q1
    c1 = c1
    c2 = c2
    Ids <- JobIds
    Retained = {j1, j2}
    Lanes = {"execution", "metadata"}
    LaneOf <- JobLaneOf
    Capacity <- OneSlot
    Prints = {p1}
    Controllers = {c1, c2}
    Session <- OneSession
    Interactions = {}
    Outcomes = {ok}
    Notices = {}
    EventCapacity = 2
    AuxCapacity = 2
    BurstLimit = 1
    TombstoneCapacity = 2
    MaxSafe = 4
    MaxWire = 0
    Protected = FALSE
    AckWindow = 2
    AckReserve = 1
    MaxPending = 2
    MaxDrops = 1
    MaxCrashes = 0
    MaxExits = 0
    MaxSent = 1
    None = None
INVARIANTS NoTurnAfterFailure
CHECK_DEADLOCK FALSE
