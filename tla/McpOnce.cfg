SPECIFICATION Spec
CONSTANTS
    NoKey = NoKey
    NoInput = NoInput
    NoCall = NoCall
    c1 = c1
    c2 = c2
    c3 = c3
    k1 = k1
    k2 = k2
    i1 = i1
    i2 = i2
    Keys = {k1}
    Inputs = {i1, i2}
    Calls = {c1, c2, c3}
SYMMETRY Symmetry
INVARIANTS
    TypeOK
    PerformerOwnsRow
PROPERTIES
    WritesAtMostOnce
