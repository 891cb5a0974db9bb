SPECIFICATION Spec
CONSTANTS
    NoJob = NoJob
    NoPackage = NoPackage
    Nothing = Nothing
    Edits = {e1}
    Keys = {k1}
    Jobs = {j1, j2}
    Packages = {p1, p2, p3}
    Retention = 1
    MaxFaults = 1
    MaxActs = 2
SYMMETRY Symmetry
INVARIANTS
    NothingLost
    
    LoginReturns
CHECK_DEADLOCK FALSE
