CONSTANTS
    ann = ann
    bob = bob
    p1 = p1
    p2 = p2
    Procs = {p1, p2}
    Users = {ann}
    Jobs = {1}
    Requester <- MCRequester
    ActiveLimit = 1
    DailyLimit = 2
    MaxConcurrent = 1
    SlowRuns = FALSE
    MaxRetries = 1
    MaxFaults = 2

SPECIFICATION FairSpec

PROPERTY JobsSettle
PROPERTY SlotsReturn
