SPECIFICATION Spec
CONSTANTS
    Callers = {1, 2}
    Requests <- MCRequests
    Startup = 1
    MaxBatch <- MCMaxBatch
    Cooldown = 2
    MaxPolls = 1
    NoRequest = NoRequest
INVARIANT KeeperTypeOK
PROPERTIES
    PromiseKept
    CooldownWithinBatch
    EveryScanEnds
CHECK_DEADLOCK FALSE
