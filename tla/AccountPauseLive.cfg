SPECIFICATION FairSpec
CONSTANTS
    Passwords <- MCPasswords
    GoodPasswords <- MCGood
    StoredUrls <- Urls
    MaxAttempt = 5
    MaxActions = 2
    Handlers <- PeriodOnly
    Faults = FALSE
PROPERTIES
    BackoffNeverShrinks
    AutoResume
    PauseAnnounced
CHECK_DEADLOCK FALSE
