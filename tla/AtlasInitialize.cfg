SPECIFICATION FairIpaSpec
CONSTANTS
    MaxStops = 4
    MaxLosses = 1
CHECK_DEADLOCK FALSE
INVARIANTS TypeOK OneRoot EstablishedIsServed IpaTrust InstalledFromInputs
PROPERTIES FinishedIsComplete Resumes PreparedIsComplete IpaResumes
