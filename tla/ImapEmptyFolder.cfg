SPECIFICATION Spec
CONSTANTS
    Folders = {1}
    MaxUid = 2
    MinNext = 1
    MaxMessages = 2
    Batch = 2
    RecentWindow = 1
    DeepWindow = 1
    AuditEvery = 1
    OldUids = {}
    Threaded = FALSE
    MaxValidity = 1
    MaxWidenings = 0
    MaxAborts = 0
    MaxRefusals = 0
INVARIANTS
    NewMailIsFound
