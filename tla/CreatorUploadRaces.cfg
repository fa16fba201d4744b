SPECIFICATION Spec
CONSTANTS
    NoHandle = NoHandle
    NoData = NoData
    NoContent = NoContent
    good = good
    Clients = {c1, c2}
    Handles = {h1, h2}
    Parts = {1, 2}
    Data = {good, bad}
    Declared <- DeclaredGood
    MaxFaults = 2
SYMMETRY Symmetry
\* One session is created; once it has ended no client has anything to do.
CHECK_DEADLOCK FALSE
INVARIANTS
    TypeOK
    TrueToTheLedger
    RacesSettle
PROPERTIES
    EndsOnce
    ReferencedBytesAreKept
