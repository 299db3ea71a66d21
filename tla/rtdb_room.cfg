CONSTANTS
    c1 = c1
    c2 = c2
    room = room
    users = users
    r1 = r1
    r2 = r2
    Clients = {c1, c2}
    Locations = {room}
    Keys = {1, 2}
    LocationOf <- OneRoom
    Observers = {r1, r2}
    MayReject = FALSE
    MaxDrops = 1
    MaxKills = 1
SPECIFICATION Spec
SYMMETRY ModelSymmetry
INVARIANTS
    ListensCounted
    WritesAccountedFor
    QuietViewsAgree
PROPERTIES
    ForgottenOnlyIfSaved
    SavedNeverVanishes
CHECK_DEADLOCK FALSE
