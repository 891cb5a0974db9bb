SPECIFICATION FairSpec
CONSTANTS
    NoJob = NoJob
    Jobs = {j1}
    Drains = {d1, d2}
    Clients = {c1, c2}
    MaxTries = 2
    DrainLimit = 1
    MaxRetries = 2
    MaxCrashes = 2
    MaxDbErrors = 1
INVARIANTS
    TypeOK
    OneRunner
    RunningHasRunner
    AttemptsBounded
    WorkDoneOnce
PROPERTIES
    SettledStaysSettled
    QueuedIsTaken
    RunningIsSettled
CHECK_DEADLOCK FALSE
