CONSTANTS
    Tx = {t1, t2}
    NoTx = NoTx
    Clients = {c1, c2}
    MaxFaults = 0
    a = a
    b = b
    c = c
    alice = alice
    bob = bob
    Hash <- MCHash
    Owner <- MCOwner
    MediaType <- MCType
    Training <- MCTraining
    Points <- MCPoints
    Asked = {0, 1}
    DefaultQuantity = 2
SPECIFICATION DatasetSpec
SYMMETRY Symmetry
INVARIANTS
    UnlockedOnce
