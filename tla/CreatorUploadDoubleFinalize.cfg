SPECIFICATION Spec
CONSTANTS
    NoHandle = NoHandle
    NoData = NoData
    NoContent = NoContent
    good = good
    Clients = {c1, c2}
    Handles = {h1}
    Parts = {1}
    Data = {good}
    Declared <- DeclaredGood
    MaxFaults = 1
SYMMETRY Symmetry
CHECK_DEADLOCK FALSE
INVARIANTS
    CompletedAudioHasBytes
