SPECIFICATION FairSpec
CONSTANTS
    Procs = {p1, p2, p3}
    Sockets = {s1, s2, s3, s4}
    LockInodes = {l1, l2}
    Backlog = 2
    None = None
    Stale = Stale
    Probe = Probe
    Gone = Gone
    MaxCrashes = 2
    MaxSpawns = 1
INVARIANTS
    OwnerReachable
    ChannelsHaveClients
PROPERTIES
    ImplementsService
    ServiceReturns
    ClientsAnswered
