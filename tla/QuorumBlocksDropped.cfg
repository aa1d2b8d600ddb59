CONSTANTS
    Interval = 4
    WindowStart = 2
    WindowEnd = 3
    Signers = {1, 2, 3}
    Salts = {1, 2}
    MaxHeight = 6
    MaxUndos = 4
    MaxMsgs = 2
SPECIFICATION Spec
PROPERTIES
    BetterNotDropped
