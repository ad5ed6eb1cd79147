CONSTANTS
    Capacity = 3
    Length = 7
    Reps = 2
    MaxLine = 3
    PipeSize = 2
    PageSize = 3
    Host = {h1, h2}
    Width = 3
    Diff1900 = 6
    MaxTime = 3
    MaxFaults = 1
    Reader = {r1, r2}
    Writer = {w1, w2}
    Count = 2
    MaxUpdates = 2
    MaxReps = 2
SPECIFICATION MCSpec
INVARIANTS
    EntryRight
CHECK_DEADLOCK FALSE
