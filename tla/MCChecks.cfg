SPECIFICATION ChecksSpec
CONSTANTS
    Key = {o1, o2, stranger}
    Officers = {o1, o2}
    ThresholdM = 2
    RequestId = {q1}
    Expiry = {1, 2}
    Garbled = Garbled
    MaxSigs = 3
    MaxTime = 1
    Client = {c1, c2}
    Limit = 1
    Window = 2
    Ttl = 3
    Idle = Idle
    NoSolution = NoSolution
    NoChallenge = NoChallenge
    MaxClock = 4
    MaxTotal = 5
    MaxSeed = 3
    TxId = {t1, t2, t3}
    Body = {b1, b2}
    TimeLock = {w1, w2}
    Leaf = {x1, x2, x3}
    MaxLeaves = 6
    MaxHistoricalDepth = 2
    MinCheckpointInterval = 2
    PreserveRecentLeaves = 2
    MaxTreeLeaves = 2
    MaxCheckpoint = 6
SYMMETRY Symmetry
INVARIANTS FreeAdmissionsBounded SolutionUsedOnce
    ProofsDecide RootBindsLeaves HeldRootPinsContents
    CheckpointsKept
PROPERTIES GateDecidesQuorum ChallengeSurvives
CHECK_DEADLOCK FALSE
