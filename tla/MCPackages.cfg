SPECIFICATION Spec
CONSTANTS
    RetryAttempts = 2
    NumDevices = 2
    Dirs <- MCDirs
    Plans <- MCPlans
INVARIANTS
    NoOrphanMetrics
    LiveHasConnection
    OneLateSend
    EntitiesGone
CHECK_DEADLOCK FALSE
