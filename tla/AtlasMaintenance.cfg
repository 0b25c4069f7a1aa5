SPECIFICATION FairSpec
CONSTANTS
    MaxRenewals = 2
    MaxFaults = 1
    MaxDeploys = 1
INVARIANTS TypeOK ArchiveOfStoppedVault BackupEndsClean
PROPERTIES UnsealedAgain RenewedIsServed EnrollConverges
