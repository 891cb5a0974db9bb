SPECIFICATION OutboxSpec
CONSTANTS
    NoKey = NoKey
    NoInput = NoInput
    NoCall = NoCall
    c1 = c1
    c2 = c2
    k1 = k1
    k2 = k2
    t1 = t1
    t2 = t2
    i1 = i1
    Inputs = {i1}
    Operations = {k1, k2}
    Tabs = {t1, t2}
    Calls = {c1, c2}
    QueueLimit = 2
SYMMETRY Symmetry
INVARIANTS
    OutboxTypeOK
    
