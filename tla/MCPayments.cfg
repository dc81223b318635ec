SPECIFICATION MoneySpec
CONSTANTS
    Handshake = {h1, h2}
    Worker = {w1, w2}
    Key = {k1, k2}
    NoKey = NoKey
    NoRow = NoRow
    MaxPayouts = 4
    MaxDied = 1
    Payment = {p1, p2}
    Phone = {n1, n2}
    NoDigits = NoDigits
    Cents = {99, 100}
SYMMETRY Symmetry
INVARIANTS ReleasedForCause PayoutsBounded  SuccessIsBacked
CHECK_DEADLOCK FALSE
