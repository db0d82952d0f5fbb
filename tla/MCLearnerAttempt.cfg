SPECIFICATION Spec
CONSTANTS
    Procs = {p, q}
    NoProc = NoProc
    Accounts = {a, b}
    NoAccount = NoAccount
    MaxAttempts = 2
    Pages = 2
    Batch = 2
    ForwardOnly = TRUE
    Timed = TRUE
    MaxEvents = 1
SYMMETRY NameSymmetry
INVARIANTS
    OneUnsettledAttempt
    SubmittedIsVerified
    OnlyShownPages
PROPERTIES
    ImplementsLedger
    KeepsItsAttempt
    OnlyTimeCutsABatch
