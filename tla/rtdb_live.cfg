CONSTANTS
    c1 = c1
    c2 = c2
    room = room
    users = users
    r1 = r1
    Clients = {c1, c2}
    Locations = {room}
    Keys = {1, 2}
    LocationOf <- OneRoom
    Observers = {r1}
    MayReject = FALSE
    MaxDrops = 1
    MaxKills = 0
SPECIFICATION FairSpec
PROPERTIES
    WritesSettle
    SavedReachesViews
CHECK_DEADLOCK FALSE
