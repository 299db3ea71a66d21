CONSTANTS
    ann = ann
    bob = bob
    s1 = s1
    s2 = s2
    Clients = {ann, bob}
    NameOf <- TwoNames
    Locations <- AllRooms
    Keys = {1, 2}
    LocationOf <- InSharedRoom
    Observers = {s1, s2}
    MayReject = FALSE
    MaxDrops = 0
    MaxKills = 0
SPECIFICATION ChatSpec
CONSTRAINT NoSelfChat
SYMMETRY ScreenSymmetry
INVARIANTS
    ShownOnce
    ListIsView
    PlaysLastVideo
    ShownUnderItsAuthor
CHECK_DEADLOCK FALSE
