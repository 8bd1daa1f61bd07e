CONSTANTS
    v = v
    w = w
    i = i
    alice = alice
    bob = bob
    NoHash = NoHash
    Hash <- MCHash
    Creator <- TwoCreators
    Webhook = {v}
    Video <- MCVideo
    Keyframes <- MCKeyframes
    Sim <- MCSim
    Limit = 2
    Workers = {w1}
    Clients = {c1}
    MaxFaults = 1
SPECIFICATION Spec
INVARIANTS
    LinkedIsAlerted
    RememberedIsReported
    MatchesPerRequest
    AlertUnderWayUnlessFault
