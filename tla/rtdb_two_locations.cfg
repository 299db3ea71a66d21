CONSTANTS
    c1 = c1
    c2 = c2
    room = room
    users = users
    r1 = r1
    r2 = r2
    Clients = {c1, c2}
    Locations = {room, users}
    Keys = {1, 2}
    LocationOf <- TwoRooms
    Observers = {r1, r2}
    MayReject = TRUE
    MaxDrops = 1
    MaxKills = 0
SPECIFICATION Spec
SYMMETRY ModelSymmetry
INVARIANTS
    HeldAcksAreReleased
    EventCacheIsOverlay
CHECK_DEADLOCK FALSE
