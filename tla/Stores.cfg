CONSTANTS
    g = g
    a1 = a1
    a2 = a2
    b1 = b1
    c1 = c1
    c2 = c2
    data = data
    Blocks = {g, a1, a2, b1}
    Hashes = {h1, h2}
    Genesis = g
    NullBlock = NullBlock
    Parent <- MCParent
    Ancestors <- MCAncestors
    Dip3 = {a2}
    Faults = {"index", "coins", "space", "evo", "crash"}
    Outpoints = {o1, o2}
    Coins = {c1, c2, data}
    Unspendable = {data}
    Spent = Spent
    Usage <- MCUsage
    Keys = {k1, k2}
    BestKey = BestKey
    Values = {v1, v2}
    None = None
    Moved = Moved
SYMMETRY Sym
SPECIFICATION StoresSpec
INVARIANTS
    CoinsInStep
    EvoMatchesBestBlock
    EvoInStep
    FlagsSound
    
    MovedStaysInCommit
PROPERTIES
    
    ImplementsEvoStore
