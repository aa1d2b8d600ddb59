CONSTANTS
    c1 = c1  c2 = c2  o1 = o1  o2 = o2  o3 = o3
    k1 = k1  k2 = k2  k3 = k3  a1 = a1  a2 = a2
    Nodes <- MCNodes
    Collaterals <- MCCollaterals
    Owners <- MCOwners
    Operators <- MCOperators
    Addrs <- MCAddrs
    Null = Null
    MaxTxs = 3
SPECIFICATION Spec
SYMMETRY Symmetry
INVARIANTS
    ListSound
    AssertionsHold
    DiffRebuildsList
CHECK_DEADLOCK FALSE
