SPECIFICATION Spec
CONSTANTS
    Procs = {p}
    NoProc = NoProc
    Accounts = {a, b}
    NoAccount = NoAccount
    MaxAttempts = 3
    Pages = 1
    Batch = 0
    ForwardOnly = TRUE
    Timed = FALSE
    MaxEvents = 2
SYMMETRY NameSymmetry
INVARIANT OneUnsettledAttempt
