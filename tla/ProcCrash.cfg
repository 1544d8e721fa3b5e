SPECIFICATION Spec
CONSTANTS
    Procs = {h1, h2}
    Pids = {i1, i2}
    None = None
    Parent = Parent
    Killed = Killed
    Code = Code
INVARIANT CrashKillsEnrolled
CHECK_DEADLOCK FALSE
