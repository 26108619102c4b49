SPECIFICATION FairSpec
CONSTANTS
    a1 = a1
    a2 = a2
    w1 = w1
    w2 = w2
    r1 = r1
    r2 = r2
    NoAccount = NoAccount
    Accounts <- OneAccount
    Jobs <- OneAccountJobs
    Owner <- OneAccountOwner
    BootJobs <- OneAccountBoot
    Limit = 1
    Workers <- MCOneWorker
    Requesters <- MCRequesters
    PollGates <- MCAllGates
    CloseAfter = 1
    MaxCommands = 1
PROPERTIES
    RoundRobin
    AcceptedPollServed
    EventuallyConverged
    CloseDrains
