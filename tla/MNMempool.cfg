CONSTANTS
    n1 = n1  n2 = n2
    c1 = c1  c2 = c2  o1 = o1  o2 = o2
    k1 = k1  k2 = k2  k3 = k3  a1 = a1
    Nodes <- MCNodes
    Collaterals <- MCCollaterals
    Owners <- MCOwners
    Operators <- MCOperators
    Addrs <- MCAddrs
    Null = Null
    MaxTxs = 2
    MaxPool = 2
    MaxOthers = 1
SPECIFICATION PoolSpec
SYMMETRY Symmetry
INVARIANTS
    OwnBlocksProcess
    OneKeyChange
    PoolStaysValid
CHECK_DEADLOCK FALSE
