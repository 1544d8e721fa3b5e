SPECIFICATION FairSpec
CONSTANTS
    Procs = {h1, h2}
    Pids = {i1, i2}
    None = None
    Parent = Parent
    Killed = Killed
    Code = Code
INVARIANTS
    ProcessNamesItsChild
    StatusIsTheChilds
    EnrolledIsTracked
PROPERTIES
    EofEndsChildren
    EofOrder
CHECK_DEADLOCK FALSE
