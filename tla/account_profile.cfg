CONSTANTS
    phone = phone
    e1 = e1
    e2 = e2
    nobody = nobody
    Devices = {phone}
    Emails = {e1}
    NoUser = nobody
    MayFail = FALSE
    MaxPresses = 1
    MaxKills = 0
SPECIFICATION Spec
INVARIANTS
    SignedUpHasProfile
CHECK_DEADLOCK FALSE
