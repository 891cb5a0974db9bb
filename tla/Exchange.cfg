SPECIFICATION Spec
CONSTANTS
    Here = {e1, f1}
    There = {e1, f1}
    Files = {f1}
    Runners = {r1, r2}
    MaxKey = 6
    MaxTwists = 1
SYMMETRY Symmetry
INVARIANTS
    CreatedOnce
    
    
    
CHECK_DEADLOCK FALSE
