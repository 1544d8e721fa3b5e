SPECIFICATION FairSpec
CONSTANTS
    Workers = {a, b}
    Root = root
    Names = {x, y}
    Temp = Temp
    Ids = {i1, i2, i3}
    None = None
    RootCalls = 3
    WorkerCalls = 1
INVARIANTS
    RegistryMatches
    MainIsRoot
    HeldOnce
    ClosureLifetime
PROPERTIES
    JoinReturns
    ImplementsContext
CHECK_DEADLOCK FALSE
