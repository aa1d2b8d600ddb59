CONSTANTS
    n1 = n1
    m1 = m1
    m2 = m2
    m3 = m3
    A = A
    B = B
    o1 = o1
    Node = {n1}
    Masternode = {m1, m2, m3}
    Tx = {A, B}
    Outpoint = {o1}
    Inputs <- MCInputs
    Quorum <- MCQuorum
    Required = 2
    Key <- MCKey
    Faulty = {m2, m3}
    KeepLock = 0
    NoKey = NoKey
    NoTx = NoTx
    NoCandidate = NoCandidate
    MaxBlocks = 2
    MaxEvents = 2
SPECIFICATION Spec
INVARIANTS
    DoubleLockNeedsDoubleVotes
    
    
    NeverBothReady
PROPERTIES
    LastVoteLocks
SYMMETRY Sym
