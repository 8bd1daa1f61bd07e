CONSTANTS
    h = h
    k = k
    alice = alice
    bob = bob
    Alice1 = Alice1
    Alice2 = Alice2
    Bob1 = Bob1
    NoHash = NoHash
    Hash <- MCHash
    Parent <- MCParent
    Wallet = {alice, bob}
    Address <- MCAddress
    WalletOf <- MCWalletOf
    Creator <- MCCreator
    Seeds = {}
    Requests = {r1}
    Domains = {d1}
    MaxFlags = 2
    MaxFaults = 1
SPECIFICATION Spec
INVARIANTS
    FlaggedLosesConfidence
    VerifiedOnceSaved
    PublisherFlagsAmongFlags
