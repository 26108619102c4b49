SPECIFICATION Spec
CONSTANTS
    Passwords <- MCPasswords
    GoodPasswords <- MCGood
    StoredUrls = {"none"}
    MaxAttempt = 2
    MaxActions = 2
    Handlers <- AllHandlers
    Faults = TRUE
INVARIANTS
    TypeOK
    RecordHonest
PROPERTIES
    NoRepeatedAnnouncement
    BackoffNeverShrinks
CHECK_DEADLOCK FALSE
