SPECIFICATION Spec
CONSTANTS
    morning = morning
    evening = evening
    Nothing = Nothing
    Listings <- OneListing
    MaxCupos = 1
    Orders <- TwoOrders
    Details <- OneDetail
    Routes <- BothRoutes
    Fragments = 1
    Versions <- OneVersion
    MaxChanges = 2
    MaxFaults = 1
PROPERTY OncePerOccurrence
CHECK_DEADLOCK FALSE
