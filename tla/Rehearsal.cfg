SPECIFICATION FairSpec
CONSTANTS
    MaxFaults = 2
    MaxCommands = 2
    Tagged = TRUE
CHECK_DEADLOCK FALSE
PROPERTIES AuthorityStays RehearsalEnds
