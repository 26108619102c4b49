SPECIFICATION Spec
CONSTANTS
    Parts = {"store", "gateway", "sessions", "snapshot", "microsoft", "portal", "texts", "forms"}
    Ids <- MCIds
    Codes = {"subject"}
    MaxFaults = 1
    Guilds = {"north", "south"}
    Order <- MCOrder
    Convergences = {"boot", "reconnect"}
    Attempts = 2
    Sids <- MCSids
    Handlers = {"first", "second"}
    MaxSessions = 2
    TTL = 2
    LoginLimit = 2
    LoginWindow = 1
    Users = {"user"}
    Jobs <- MCJobs
    Owner <- MCOwner
    Builds = {"page", "json"}
    Outcomes = {"found", "no_vacancies"}
    NoOne = "no one"
    RawLimit = 2
    HistoryDisplayLimit = 1
    MaxPolls = 3
    Interactions = {"press", "again"}
    MaxGrants = 2
    MaxTurns = 1
INVARIANTS
    TypeOK
    ConvergedOrUntouched
    SnapshotSafe
    CodesSafe
    TextsFaithful
    FormsFaithful
PROPERTIES
    GatewaySafe
    SessionsSafe
    ChecksSafe
CHECK_DEADLOCK FALSE
