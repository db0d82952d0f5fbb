SPECIFICATION FairSpec
CONSTANTS
    a = a
    b = b
    p = p
    q = q
    Clients = {a, b}
    Commands <- WriterAndReader
    Unattended = TRUE
    Retries = 1
    Pages = {p, q}
    MaxPages = 2
    MaxSessions = 2
    MaxCalls = 2
INVARIANTS
    WrittenOnce
    OutcomeIsTrue
    RecoveryIsDue
    TokenOfSession
    EachPageOnce
PROPERTIES
    UpgradeKeepsNewer
    CallsEnd
