SPECIFICATION PayoutSpec
CONSTANTS
    Handshake = {h1}
    Worker = {w1}
    Key = {k1}
    NoKey = NoKey
    NoRow = NoRow
    MaxPayouts = 1
    MaxDied = 0
INVARIANT PaidMeansVerified
CHECK_DEADLOCK FALSE
