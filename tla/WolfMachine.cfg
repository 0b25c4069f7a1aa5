SPECIFICATION Spec
CONSTANTS
    Sessions = {s1, s2}
    Clients = {c1}
    NoSession = NoSession
    NoThread = NoThread
    MaxRestarts = 1
    MaxMeddles = 1
    ProbesMayFail = TRUE
    VaultMayFail = FALSE
    IoMayFail = FALSE
SYMMETRY SessionSymmetry
INVARIANTS RecordedLayersAreCleaned
PROPERTIES StopPowersOff ImplementsLifecycle
