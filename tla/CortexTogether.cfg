SPECIFICATION FairSpec
CONSTANTS
    w1 = w1
    b1 = b1
    b2 = b2
    Windows <- MCWindows
    Backups <- MCBackups
    MaxFaults = 1
    MaxWindows = 2
INVARIANTS LeftAsFound TaskKeepsStorage
PROPERTIES FoundIsLeft StorageSettles
