SPECIFICATION Spec
CONSTANTS
    TxId = {t1, t2}
    Body = {b1}
    Auditor = {a1}
    Admin = {h1, h2}
    RequestId = {q1}
    Slot = {n1}
    RootHash <- MCRootHash
    Root <- LedgerRoot
    NoRoot = NoRoot
    NoCheckpoint = NoCheckpoint
    Torn = Torn
    MaxRecords = 2
    MaxFaults = 1
SYMMETRY Symmetry
INVARIANTS TypeOK FrozenIsMarked AckedKept
PROPERTY ThawMatchesCheckpoint
