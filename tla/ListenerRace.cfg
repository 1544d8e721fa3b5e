SPECIFICATION BareSpec
CONSTANTS
    Procs = {p1, p2}
    Sockets = {s1, s2, s3}
    Backlog = 2
    None = None
    Stale = Stale
    Probe = Probe
    Gone = Gone
INVARIANT OneOwner
