SPECIFICATION ServicesSpec
CONSTANTS
    Member = {m1, m2}
    Local = m1
    MaxFailureCount = 2
    MaxClock = 1
    MaxCount = 2
    MaxTerm = 1
    Entries = {e1, e2}
    Genesis = Genesis
    MaxIndex = 3
    MaxHistory = 2
    MaxCreated = 3
    MaxSteps = 3
    Clock = {1, 2, 3, 4, 5}
    Time = {0, 1, 2, 6}
    Honest = {2, 3, 5}
    WindowMaxSize = 4
    DriftThreshold = 2
    RequiredMin = 2
    Guest = {g1}
    NoDoc = NoDoc
    LockedTx = {t1, t2}
    MaxEpoch = 3
    Cpu = {c1, c2}
    Signer = {s1, s2}
    Measurement = {v1, v2}
    NoBlob = NoBlob
    MaxBlobs = 3
    Holder = {h1, h2, h3}
    ShareIndex = {0, 1, 2, 3}
    ShareThreshold = 2
    MaxArrivals = 3
    Conn = {k1, k2}
    Event = {w1, w2}
    MaxAttempts = 3
INVARIANTS
    SuspicionMatchesCount EvictionHasApproval
    ChainUnbroken
    AnchorIsHonest WindowStaysFull
    KeysKept KeptForCause
    LatestBlobOpens
    RecoveryDetermined
    OnlyOpenIsUsed ResultsBorneOut
PROPERTIES AuthorityStays ConnectSettles DeliveryEnds
CHECK_DEADLOCK FALSE
