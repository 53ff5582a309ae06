CONSTANTS
    ann = ann
    bob = bob
    p1 = p1
    p2 = p2
    Procs = {p1, p2}
    Users = {ann}
    Jobs = {1}
    Requester <- MCRequester
    ActiveLimit = 2
    DailyLimit = 2
    MaxConcurrent = 1
    SlowRuns = TRUE
    MaxRetries = 1
    MaxFaults = 1

SPECIFICATION Spec

INVARIANT OneQuestionSet
