SPECIFICATION FullHistorySpec
CONSTANTS
    Folders = {1, 2}
    MaxUid = 3
    MinNext = 2
    MaxMessages = 4
    Batch = 4
    RecentWindow = 1
    DeepWindow = 1
    AuditEvery = 2
    OldUids = {}
    Threaded = FALSE
    MaxValidity = 1
    MaxWidenings = 0
    MaxAborts = 1
    MaxRefusals = 0
PROPERTIES
    IndexMirrorsServer
