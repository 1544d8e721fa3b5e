SPECIFICATION FairSpec
CONSTANTS
    Parent = a
    Procs = {a, b, k1, k2}
    Kids = {k1, k2}
    Grouped = {k1}
    Instances = {i1, i2, i3}
    Message <- TwoBytes
    PipeSize = 1
    Attempts = 2
    None = None
    Gone = Gone
INVARIANTS
    StreamIntact
    NameLasts
    FailedSpawnLeavesNothing
    CrashKillsGrouped
PROPERTIES
    ImplementsService
    EndsLeakOnlyToOverlap
    RefusedForAReason
    ClientsServed
