CONSTANTS
    ann = ann
    bob = bob
    s1 = s1
    Clients = {ann}
    NameOf <- TwoNames
    Locations <- AllRooms
    Keys = {1, 2}
    LocationOf <- InOwnRoom
    Observers = {s1}
    MayReject = FALSE
    MaxDrops = 0
    MaxKills = 0
SPECIFICATION ChatSpec
INVARIANTS
    ListIsChronological
CHECK_DEADLOCK FALSE
