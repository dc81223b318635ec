SPECIFICATION PuzzleSpec
CONSTANTS
    Client = {c1}
    Limit = 1
    Window = 2
    Ttl = 3
    Idle = Idle
    NoSolution = NoSolution
    NoChallenge = NoChallenge
    MaxClock = 1
    MaxTotal = 2
    MaxSeed = 2
PROPERTY RequestsAnswered
CHECK_DEADLOCK FALSE
