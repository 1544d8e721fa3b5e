SPECIFICATION Spec
CONSTANTS
    Values = {a, b}
    MaxSize = 4
    GenModulus = 3
    KeysOutliveClear = FALSE
    FREE_SENTINEL = FREE_SENTINEL
    OutOfRange = OutOfRange
SYMMETRY MCSymmetry
INVARIANTS
    DenseAndSlotsAgree
    FreeListComplete
    StaleKeysMiss
PROPERTIES
    ImplementsKeyedStore
