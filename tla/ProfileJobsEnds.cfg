SPECIFICATION FairSpec
CONSTANTS
    NoWorker = NoWorker
    NoMsg = NoMsg
    NoPage = NoPage
    Jobs = {1}
    Workers = {w1}
    LastPage = 0
    PageSize = 2
    Requests = {"run", "retry", "delete", "schedule"}
    Kinds = {"paged", "direct"}
    MaxParents <- EndsParents
    MaxRetries = 1
    MaxFailures <- EndsFailures
    MaxFaults = 1
PROPERTIES
    EveryParentEnds
CHECK_DEADLOCK FALSE
