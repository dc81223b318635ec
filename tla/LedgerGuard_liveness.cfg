SPECIFICATION FairSpec
CONSTANTS
    TxId = {t1}
    Body = {b1, b2}
    Auditor = {a1}
    Admin = {h1}
    RequestId = {q1}
    Slot = {n1}
    RootHash <- MCRootHash
    Root <- LedgerRoot
    NoRoot = NoRoot
    NoCheckpoint = NoCheckpoint
    Torn = Torn
    MaxRecords = 1
    MaxFaults = 1
PROPERTIES MismatchIsNoticed RitualEnds
