CONSTANTS
    damaged = damaged
    former = former
    k3 = k3
    Signers <- MCSigners
    CurrentKeys = {damaged, k3}
    Unverified = {damaged}
SPECIFICATION Spec
PROPERTIES
    RemovedInTheEnd
