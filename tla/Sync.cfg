SPECIFICATION FairSchedulerSpec
CONSTANTS
    NoAccount = NoAccount
    Tick = Tick
    Accounts = {a2}
    Exchange = {a2}
    Leaky = {a2}
    Callers = {c1}
    Visitors = {v1}
    MaxEvents = 3
INVARIANTS
    OneSyncPerAccount
    
    StoppedIsQuiet
PROPERTIES
    PauseHolds
    
CHECK_DEADLOCK FALSE
