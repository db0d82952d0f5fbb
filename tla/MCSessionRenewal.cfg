SPECIFICATION FairSpec
CONSTANTS
    a = a
    b = b
    c = c
    p = p
    q = q
    Threads = {a, b, c}
    Processes = {p, q}
    ProcessOf <- ThreadsAndProcess
    Keys = {k1}
    NoKey = NoKey
    NoThread = NoThread
    Period = 2
    Slack = 1
    Cooldown = 1
    MaxClock = 2
    MaxSessions = 1
    MaxCalls = 2
    MaxCrashes = 1
INVARIANTS
    OneSignInAtATime
    AtMostOneStrike
    CodeNeverReplayed
    NoSignInOverLiveSession
PROPERTIES
    ImplementsGate
    CallsEnd
