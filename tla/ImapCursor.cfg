SPECIFICATION Spec
CONSTANTS
    Folders = {1}
    MaxUid = 4
    MinNext = 2
    MaxMessages = 4
    Batch = 2
    RecentWindow = 1
    DeepWindow = 1
    AuditEvery = 1
    OldUids = {1}
    Threaded = FALSE
    MaxValidity = 2
    MaxWidenings = 1
    MaxAborts = 1
    MaxRefusals = 0
INVARIANTS
    TypeOK
    
PROPERTIES
    DropsOnlyTheGone
