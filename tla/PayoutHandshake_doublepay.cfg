SPECIFICATION PayoutSpec
CONSTANTS
    Handshake = {h1}
    Worker = {w1, w2}
    Key = {k1}
    NoKey = NoKey
    NoRow = NoRow
    MaxPayouts = 2
    MaxDied = 0
INVARIANT PaidOnce
CHECK_DEADLOCK FALSE
