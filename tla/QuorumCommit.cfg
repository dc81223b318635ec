SPECIFICATION Spec
CONSTANTS
    Node = {n1, n2, n3, n4}
    Self = n1
    t1 = t1
    r1 = r1
    r2 = r2
    Tx = {t1}
    Record = {r1, r2}
    NoRecord = NoRecord
    TxOf <- MCTxOf
    Proposal <- MCProposal
    OtherShare <- MCOtherShare
    Request <- MCRequest
    MaxLog = 2
    MaxShares = 2
    MaxPayloads = 1
    MaxFaults = 1
SYMMETRY Symmetry
INVARIANTS NewestRowWins PayloadSavesOnce AggregatesAccepted
PROPERTY ImplementsCommitLedger
CHECK_DEADLOCK FALSE
