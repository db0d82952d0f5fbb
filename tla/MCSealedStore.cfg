SPECIFICATION Spec
CONSTANTS
    c = c
    k = k
    p = p
    q = q
    Procs = {p, q}
    Artifacts = {c, k}
    Credentials = c
    Passphrases = {8, 9}
    MaxKeys = 2
    MaxSaves = 2
    MaxCalls = 4
    MaxCrashes = 1
SYMMETRY Symmetry
INVARIANTS
    KeyringStaysGood
PROPERTIES
    LoadsLockNobodyOut
    RecordedSourceOpens
