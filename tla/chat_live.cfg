CONSTANTS
    ann = ann
    bob = bob
    s1 = s1
    s2 = s2
    Clients = {ann}
    NameOf <- TwoNames
    Locations <- AllRooms
    Keys = {1}
    LocationOf <- InOwnRoom
    Observers = {s1, s2}
    MayReject = FALSE
    MaxDrops = 1
    MaxKills = 1
SPECIFICATION FairChatSpec
PROPERTIES
    SavedIsShown
CHECK_DEADLOCK FALSE
