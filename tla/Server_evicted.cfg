SPECIFICATION Spec
CONSTANTS
    Upload = {1, 2}
    Size = 3
    Chunk = 2
    Req = {r1, r2}
    Days <- AllDays
    MaxTries = 2
    MaxFaults = 2
    Key = {1, 2}
    Version = {1, 2}
    Bytes <- Fitting
    MaxSize = 2
    Task = {t1, t2}
    MaxCalls = 4
    MaxStarts = 1
    Parts <- CacheOnly
INVARIANT EvictedStillServes
CHECK_DEADLOCK FALSE
