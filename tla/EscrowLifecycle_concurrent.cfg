SPECIFICATION Spec
CONSTANTS
    Worker = {w1, w2}
    Tx = {t1, t2, t3, t4}
    NoTx = NoTx
    NoDoc = NoDoc
    MaxLost = 1
    MaxRefunds = 2
SYMMETRY Symmetry
INVARIANTS TypeOK StatusBacked ChargesBounded
PROPERTY StampsStay
