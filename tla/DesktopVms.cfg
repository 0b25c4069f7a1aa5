SPECIFICATION Spec
CONSTANTS
    Runs = {r1, r2}
    Ids = {i1, i2}
    Names = {x, y}
    NoVm = NoVm
    NoRun = NoRun
    NoName = NoName
    MaxFaults = 2
SYMMETRY RunSymmetry
CHECK_DEADLOCK FALSE
INVARIANTS TypeOK CloneIsCleanedUp SnippetsGo
PROPERTIES DesktopIsItsOwn
