SPECIFICATION Spec
CONSTANTS
    k1 = k1
    k2 = k2
    k3 = k3
    k4 = k4
    k5 = k5
    k6 = k6
    Keys <- MCKeys
    GroupWidth = 3
    LoadDivisor = 3
    Fingerprints = {0, 1}
    HashFunctions <- MCHashFunctions
    MaxCapacity = 12
    MaxEntries = 5
    MaxReserve = 5
    Empty = Empty
    Deleted = Deleted
    NoEntry = NoEntry
SYMMETRY MCSymmetry
INVARIANTS
    IndexExact
    ProbesEnd
    LookupsExact
PROPERTIES
    OperationsExact
