SPECIFICATION Spec
CONSTANTS
    Workers = {w1, w2}
    Pairings = {p1, p2}
    Peers = {alice}
    Keys = {k1, k2}
    Challenges = {c1}
    Nobody = Nobody
    NoPairing = NoPairing
    NoPeer = NoPeer
    NoChallenge = NoChallenge
    PairingAttempts = 2
    PairingTTLs = {2}
    ChallengeTTLs = {1}
    MaxChallengeLifetime = 1
    ClockSkew = 0
    RelayAhead = 1
    MaxTime = 2
    MaxIdentity = 2
    MaxCrashes = 1
SYMMETRY Symmetry
INVARIANTS
    PairingOnce
    GuessBound
    ChallengeOnceUnlessSetBack
    AuditFollowsState
    RotationClearsUnlessCrash
PROPERTIES
    ReceiptBacked
    ImplementsLedger
