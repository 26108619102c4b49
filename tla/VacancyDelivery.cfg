SPECIFICATION Spec
CONSTANTS
    morning = morning
    evening = evening
    Nothing = Nothing
    Listings <- BothListings
    MaxCupos = 1
    Orders <- OneOrder
    Details <- TwoDetails
    Routes <- BothRoutes
    Fragments = 2
    Versions <- TwoVersions
    MaxChanges = 2
    MaxFaults = 2
INVARIANTS
    TypeOK
    RoutesIndependent
PROPERTIES
    KeepsPromise
    RepeatedOnlyInWindow
CHECK_DEADLOCK FALSE
