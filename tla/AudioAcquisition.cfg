SPECIFICATION Spec
CONSTANTS
    None = None
    Items = {i1}
    Reviews = {r1, r2}
    Jobs = {j1, j2}
    Workers = {w1, w2}
    Objects = {o1, o2}
    Times <- Clock
    ClaimTTL = 1
SYMMETRY Symmetry
CHECK_DEADLOCK FALSE
INVARIANTS
    TypeOK
    RecordsAgree
PROPERTIES
    RightfulClaims
