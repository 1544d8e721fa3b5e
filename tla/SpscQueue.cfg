SPECIFICATION FairSpec
CONSTANTS
    Capacity = 4
    IndexModulus = 8
    Values = {a, b}
    Raw = Raw
    MovedFrom = MovedFrom
INVARIANTS
    SlotLifetime
    NothingLeaked
PROPERTIES
    ImplementsFifo
    AcceptedIsConsumed
CHECK_DEADLOCK FALSE
