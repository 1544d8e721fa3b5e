SPECIFICATION Spec
CONSTANTS
    Procs = {p1, p2}
    Sockets = {s1, s2, s3}
    LockInodes = {l1, l2}
    Backlog = 2
    None = None
    Stale = Stale
    Probe = Probe
    Gone = Gone
    MaxCrashes = 1
    MaxSpawns = 1
PROPERTY RefusedByLiveOwner
