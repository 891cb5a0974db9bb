SPECIFICATION Spec
CONSTANTS
    NoKey = NoKey
    NoInput = NoInput
    c1 = c1
    c2 = c2
    c3 = c3
    k1 = k1
    i1 = i1
    i2 = i2
    Operations = {k1}
    Inputs = {i1, i2}
    Calls = {c1, c2, c3}
SYMMETRY Symmetry
INVARIANTS
    OneWorker
    ReceiptsTellTheTruth
PROPERTIES
    ChangesAtMostOnce
