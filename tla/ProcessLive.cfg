SPECIFICATION FairSpec
CONSTANTS
    Parts = {"store", "sessions", "microsoft", "portal"}
    Ids <- MCIds
    Codes = {"subject"}
    MaxFaults = 1
    Guilds = {"north", "south"}
    Order <- MCOrder
    Convergences = {"boot", "reconnect"}
    Attempts = 2
    Sids <- MCSids
    Handlers = {"first", "second"}
    MaxSessions = 1
    TTL = 1
    LoginLimit = 2
    LoginWindow = 1
    Users = {"user"}
    Jobs <- MCJobs
    Owner <- MCOwner
    Builds = {"page", "json"}
    Outcomes = {"found", "no_vacancies"}
    NoOne = "no one"
    RawLimit = 2
    HistoryDisplayLimit = 1
    MaxPolls = 3
    Interactions = {"press"}
    MaxGrants = 3
    MaxTurns = 1
PROPERTIES
    EventuallyOpens
    WaitsEnd
    EveryInteractionEnds
    ChecksEnd
CHECK_DEADLOCK FALSE
