SPECIFICATION FairSpec
CONSTANTS
    morning = morning
    evening = evening
    Nothing = Nothing
    Listings <- BothListings
    MaxCupos = 2
    Orders <- OneOrder
    Details <- OneDetail
    Routes <- BothRoutes
    Fragments = 2
    Versions <- TwoVersions
    MaxChanges = 2
    MaxFaults = 1
PROPERTY RecordFollowsWorld
CHECK_DEADLOCK FALSE
