SPECIFICATION Spec
CONSTANTS
    Sessions = {s1, s2}
    Clients = {c1}
    NoSession = NoSession
    NoThread = NoThread
    MaxRestarts = 1
    MaxMeddles = 0
    ProbesMayFail = FALSE
    VaultMayFail = TRUE
    IoMayFail = TRUE
SYMMETRY SessionSymmetry
INVARIANTS TransientPhaseIsOwned RunningSessionIsTimed
PROPERTIES RestartKeepsSession
