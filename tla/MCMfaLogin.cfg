SPECIFICATION FairSpec
CONSTANTS
    p = p
    q = q
    Procs = {p, q}
    Commands <- PersonAndClient
    Methods = {"app", "sms"}
    Served <- Pages
    Polls = 2
    Hops = 2
    Reloads = 1
    MaxChallenges = 2
    MaxCommands = 3
    MaxCrashes = 1
INVARIANTS
    SameChallenge
    LiteralCodeFits
PROPERTIES
    AcceptedIsKept
    ExpiredIsDiscarded
    CommandsEnd
CHECK_DEADLOCK FALSE
