SPECIFICATION Spec
CONSTANTS
    NoDraft = NoDraft
    NoKey = NoKey
    NoFile = NoFile
    dr1 = dr1
    dr2 = dr2
    k1 = k1
    k2 = k2
    f1 = f1
    s1 = s1
    s2 = s2
    w1 = w1
    w2 = w2
    Drafts = {dr1, dr2}
    Keys = {k1, k2}
    Files = {f1}
    Senders = {s1, s2}
    Workers = {w1, w2}
    MaxFiles = 1
    MaxEdits = 1
    MaxSends = 3
    MaxMishaps = 1
SYMMETRY Symmetry
INVARIANTS
    
    
    SentIsWhatWasAccepted
    OneCopyUnlessFault
    SendingHasSender
CHECK_DEADLOCK FALSE
