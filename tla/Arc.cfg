SPECIFICATION FairSpec
CONSTANTS
    Threads = {t1, t2}
    Names = {x, y}
    Blocks = {b1, b2, b3}
    None = None
INVARIANTS
    CountIsOwners
    NoUseAfterFree
    DestroyedOnce
PROPERTIES
    OwnerlessIsFreed
