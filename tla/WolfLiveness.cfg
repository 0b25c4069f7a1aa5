SPECIFICATION FairSpec
CONSTANTS
    Sessions = {s1}
    Clients = {c1}
    NoSession = NoSession
    NoThread = NoThread
    MaxRestarts = 1
    MaxMeddles = 0
    ProbesMayFail = TRUE
    VaultMayFail = FALSE
    IoMayFail = FALSE
PROPERTIES SessionEnds RequestsReturn
