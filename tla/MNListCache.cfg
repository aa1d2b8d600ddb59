CONSTANTS
    Blocks = {0, 1, 2, 3, 4, 5, 6}
    Base = 0
    Parent <- MCParent
    Height <- MCHeight
    Changing = {1, 3, 5}
    None = None
    SnapshotPeriod = 3
    CacheSize = 3
    RpcVerify = FALSE
SPECIFICATION StoreSpec
INVARIANTS
    
    WalkBounded
