CONSTANTS
    w1 = w1
    w2 = w2
    Workers = {w1, w2}
    Master = master
    BatchSize = 2
    Batches <- MCBatches
    MaxChecks = 5
    MaxRounds = 2
SPECIFICATION Spec
INVARIANTS
    NoFailureLost
    CountersExact
PROPERTIES
    WaitReturns
