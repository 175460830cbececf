SPECIFICATION Spec
CONSTANTS
    Callers = {1, 2}
    Requests <- MCRequests
    Startup = 1
    MaxBatch <- MCMaxBatch
    Cooldown = 2
    MaxPolls = 1
    NoRequest = NoRequest
PROPERTY FetchErrorsSurvived
CHECK_DEADLOCK FALSE
