\* One turn asks, resolves and re-asks two questions in a receipt that has room
\* for three events; two turns that keep producing share the link.
SPECIFICATION Spec
CONSTANTS
    a = a
    b = b
    n1 = n1
    Ids <- Turns
    Retained <- Turns
    Lanes = {"execution"}
    LaneOf <- TurnLaneOf
    Capacity <- BothFit
    Prints = {p1}
    Controllers = {c1}
    Interactions = {i1, i2}
    Outcomes = {ok}
    Notices = {n1}
    EventCapacity = 3
    AuxCapacity = 1
    BurstLimit = 2
    TombstoneCapacity = 2
    MaxSafe = 5
    MaxWire = 0
    None = None
INVARIANTS ReplayIsOrdered ReplayRestoresQuestions PeersTakeTurns AuxiliaryIsServed
SYMMETRY QuestionSymmetry
