SPECIFICATION Spec
CONSTANTS
    Values = {a, b}
    MaxSize = 4
    GenModulus = 3
    KeysOutliveClear = TRUE
    FREE_SENTINEL = FREE_SENTINEL
    OutOfRange = OutOfRange
INVARIANTS
    StaleKeysMiss
