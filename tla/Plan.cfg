SPECIFICATION Spec
CONSTANTS
    Items = {i1, i2, i3}
    Forms = {f1}
    Assistants = {a1}
    Starts = {1}
    Lengths = {1}
    Phases = {1}
    MaxSaves = 3
SYMMETRY Symmetry
INVARIANTS
    PlanFollows
    LoneSavesStayAcyclic

    
CHECK_DEADLOCK FALSE
