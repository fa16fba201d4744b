SPECIFICATION FairSpec
CONSTANTS
    NoReview = NoReview
    NoJob = NoJob
    NoOwner = NoOwner
    Reviews = {r1}
    Assets = {a1}
    Slots = {1, 2, 3}
    Executors = {e1}
    MaxAttempts = 1
    BatchSize = 1
    Requests = {}
    MaxFaults = 0
PROPERTIES
    EveryQuarantineEnds
