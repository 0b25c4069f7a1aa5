SPECIFICATION Spec
CONSTANTS
    c0 = c0
    c1 = c1
    Commits <- MCCommits
    First = c0
    Zero = Zero
    Mixed = Mixed
    NoCode = NoCode
    MaxPushes = 3
    MaxFaults = 1
INVARIANTS FreshReceiptMeansServed NewestIsDeployed
PROPERTIES ReceiptIsCurrent
CHECK_DEADLOCK FALSE
