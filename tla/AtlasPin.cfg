SPECIFICATION Spec
CONSTANTS
    MaxRenewals = 1
    MaxFaults = 0
    MaxDeploys = 0
PROPERTY PinComesFirst
