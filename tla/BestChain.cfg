CONSTANTS
    G = G
    A1 = A1
    A2 = A2
    B1 = B1
    B2 = B2
    t1 = t1
    t2 = t2
    Block = {G, A1, A2, B1, B2}
    Genesis = G
    Ancestors <- MCAncestors
    Proof <- MCProof
    Memory <- MCMemory
    Malformed = {A2}
    Refusable = {B2}
    Thread = {t1, t2}
    Idle = Idle
    Null = Null
    MaxCalls = 2
SPECIFICATION FairSpec
INVARIANTS
    BestChainActive
    CandidatesExact
    ActiveChainValid
    LinkedExact

    
CHECK_DEADLOCK FALSE
