\* A conversation that is resumed for a turn that is refused.
SPECIFICATION ThreadsSpec
CONSTANTS
    None = None
    Threads = {t1}
    Persistent = {t1}
    MaxWorks = 2
    MaxHandoffs = 1
    MaxBreaks = 1
    MaxFailedStarts = 1
INVARIANTS ReleasedIsUnloaded
CHECK_DEADLOCK FALSE
