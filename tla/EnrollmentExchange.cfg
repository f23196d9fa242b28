SPECIFICATION ExchangeSpec
CONSTANTS
    Pairings = {p1, p2}
    Peers = {r1, r2}
    Keys = {r1, r2}
    NoPeer = NoPeer
    Challenges = {c1, c2, c3}
    NoChallenge = NoChallenge
    MaxGeneration = 2
    MaxCuts = 2
CHECK_DEADLOCK FALSE
SYMMETRY Symmetry
INVARIANTS
    OneRelayPerOffer
    ListedIsPeerUnlessRevoked
    EnrollableUnlessCut
PROPERTIES
    RelaysAreLedgers
