CONSTANTS
    Nodes = {1, 2, 3}
    NoPayee = NoPayee
    MaxHeight = 4
    MaxTxs = 2
    MinMaxPenalty = 10
    Percent = 66
    MaxCount = 13
    PoSeHeight = 8
    MaxFails = 3
    BanHeights = {2, 3}
    Interval = 4
    WindowStart = 2
    WindowEnd = 3
    Signers = {1, 2}
    Salts = {1, 2}
    ChainHeight = 6
    MaxMsgs = 2
    MaxUndos = 4
SPECIFICATION EvoSpec
INVARIANTS
    NoKeyBanned
    
    TwoFailuresBan
    MinedMatchesChain
    IndexComplete
PROPERTIES
    PaidInTurn
    DisconnectedMinedAgain
CHECK_DEADLOCK FALSE
