\* A process ends with the lock, and two others start.
SPECIFICATION DatabaseSpec
CONSTANTS
    None = None
    Procs = {1, 2, 3}
    CurrentSchema = 3
    MaxCrashes = 1
INVARIANTS OneLeaseHolder
CHECK_DEADLOCK FALSE
