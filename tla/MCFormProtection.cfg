SPECIFICATION HitSpec
CONSTANTS
    Threads = {t, u}
    NoThread = NoThread
    Digits = 3
    MaxClock = 4
SYMMETRY ThreadSymmetry
PROPERTY NeverIssuedTwice
