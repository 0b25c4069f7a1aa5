SPECIFICATION Spec
CONSTANTS
    Sessions = {s1}
    Clients = {c1}
    NoSession = NoSession
    NoThread = NoThread
    MaxRestarts = 0
    MaxMeddles = 0
    ProbesMayFail = FALSE
    VaultMayFail = FALSE
    IoMayFail = FALSE
INVARIANT FailedStartCleansUp
