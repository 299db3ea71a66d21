CONSTANTS
    phone = phone
    e1 = e1
    e2 = e2
    nobody = nobody
    Devices = {phone}
    Emails = {e1, e2}
    NoUser = nobody
    MayFail = TRUE
    MaxPresses = 2
    MaxKills = 1
SPECIFICATION Spec
SYMMETRY EmailSymmetry
INVARIANTS
    ProfileNeedsAccount
    UidComesLast
    ProfilesAreWhole
CHECK_DEADLOCK FALSE
