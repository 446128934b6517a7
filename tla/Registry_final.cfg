SPECIFICATION RegistrySpec
CONSTANTS
    Jobs = {j1, j2}
    Receipted = {j1, j2}
    Results = {"completed", "interrupted"}
    MaxStops = 1
    MaxFaults = 0
    None = None
CHECK_DEADLOCK FALSE
PROPERTIES CompletedIsPreserved
