SPECIFICATION Spec
CONSTANTS
    Worker = {w1, w2}
    Tx = {t1, t2}
    NoTx = NoTx
    NoDoc = NoDoc
    MaxLost = 0
    MaxRefunds = 1
PROPERTY RefundedIsFinal
