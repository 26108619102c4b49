SPECIFICATION Spec
CONSTANTS
    Passwords <- MCPasswords
    GoodPasswords <- MCGood
    StoredUrls <- Urls
    MaxAttempt = 1
    MaxActions = 1
    Handlers <- AllHandlers
    Faults = FALSE
PROPERTY NothingUndone
CHECK_DEADLOCK FALSE
