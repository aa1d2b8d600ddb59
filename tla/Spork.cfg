CONSTANTS
    n1 = n1
    n2 = n2
    k1 = k1
    k2 = k2
    k3 = k3
    s12 = s12
    NoKey = NoKey
    NoMsg = NoMsg
    Nodes = {n1, n2}
    IDs = {s12}
    Values = {1, 2}
    SignerKeys = {k1, k2, k3}
    SporkKeys = {k1, k2}
    MinSporkKeys = 2
    OwnKey <- MCOwnKey
    Reconsider = s12
    MaxBlocks = 1
    Timeout = 1
    Future = 0
    MaxTime = 1
    MaxSent = 3
SPECIFICATION Spec
INVARIANTS
    OneActiveValue
    ActiveServed
    
PROPERTIES
    NewestWins
