CONSTANTS
    G = G
    A1 = A1
    A2 = A2
    B1 = B1
    B2 = B2
    t1 = t1
    t2 = t2
    Block = {G, A1, A2, B1, B2}
    Genesis = G
    Ancestors <- MCAncestors
    Proof <- MCProof
    Memory <- MCMemory
    Malformed = {}
    Refusable = {}
    Thread = {t1, t2}
    Idle = Idle
    Null = Null
    MaxCalls = 1
SPECIFICATION Spec
INVARIANTS
    CandidateLeft
CHECK_DEADLOCK FALSE
