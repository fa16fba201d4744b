SPECIFICATION Spec
CONSTANTS
    NoWorker = NoWorker
    NoMsg = NoMsg
    NoPage = NoPage
    Jobs = {1, 2, 3}
    Workers = {w1, w2}
    LastPage = 1
    PageSize = 1
    Requests = {"run", "retry", "delete"}
    Kinds = {"paged", "direct"}
    MaxParents <- RacesParents
    MaxRetries = 0
    MaxFailures <- RacesFailures
    MaxFaults = 1
SYMMETRY Symmetry
INVARIANTS
    TypeOK
    NoPageIsSkipped
    CompleteMeansChildren
PROPERTIES
    ImplementsWalk
    FailureKeepsCursor
    StaleRunsAreFenced
CHECK_DEADLOCK FALSE
