SPECIFICATION RegistryFair
CONSTANTS
    Jobs = {j1}
    Receipted = {j1}
    Results = {"completed", "interrupted"}
    MaxStops = 1
    MaxFaults = 0
    None = None
CHECK_DEADLOCK FALSE
PROPERTIES ReplaySettles
