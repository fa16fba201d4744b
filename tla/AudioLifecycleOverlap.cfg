SPECIFICATION Spec
CONSTANTS
    NoReview = NoReview
    NoJob = NoJob
    NoOwner = NoOwner
    Reviews = {r1}
    Assets = {a1}
    Slots = {1, 2, 3, 4, 5}
    Executors = {e1, e2}
    MaxAttempts = 2
    BatchSize = 2
    Requests = {"approve", "reject", "expire"}
    MaxFaults = 3
SYMMETRY Symmetry
INVARIANTS
    TypeOK
    OneVerdict
PROPERTIES
    ImplementsVault
    PromotionKeepsBytes
    StaleClaimsAreFenced
