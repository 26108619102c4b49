SPECIFICATION FairSpec
CONSTANTS
    tick = tick
    request = request
    login = login
    NoOne = NoOne
    Tick = tick
    Callers <- MCCallers
    SignIns <- MCSignIns
    Stored = 1
    MaxTokens = 3
    MaxSessions = 1
INVARIANTS
    SingleFlight
    OneNoticePerDeath
    NoSpentToken
PROPERTY EveryCallerReturns
CHECK_DEADLOCK FALSE
