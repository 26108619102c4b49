SPECIFICATION Spec
CONSTANTS
    a1 = a1
    a2 = a2
    w1 = w1
    w2 = w2
    r1 = r1
    r2 = r2
    NoAccount = NoAccount
    Accounts <- MCAccounts
    Jobs <- MCJobs
    Owner <- MCOwner
    BootJobs <- MCBootJobs
    Limit = 1
    Workers <- MCWorkers
    Requesters <- MCRequesters
    PollGates <- MCOpenOnly
    CloseAfter = 1
    MaxCommands = 2
SYMMETRY Symmetry
INVARIANTS
    SlotsExact
    QueuedIsPending
