\* A Job turn and an unretained turn compete for one execution slot while
\* controllers replace each other, writes fail and acknowledgements come early.
SPECIFICATION JournalSpec
CONSTANTS
    j1 = j1
    r1 = r1
    Ids <- PairIds
    Retained = {j1}
    Lanes = {"execution"}
    LaneOf <- PairLaneOf
    Capacity <- OneSlot
    Prints = {p1, p2}
    Controllers = {c1, c2}
    Interactions = {}
    Outcomes = {ok}
    Notices = {}
    EventCapacity = 2
    AuxCapacity = 1
    BurstLimit = 1
    TombstoneCapacity = 2
    MaxSafe = 3
    MaxWire = 0
    None = None
INVARIANTS TypeOK ReleasedStaysReleased
PROPERTIES ResultKept
SYMMETRY ReceiptSymmetry
