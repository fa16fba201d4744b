SPECIFICATION Spec
CONSTANTS
    NoItem = NoItem
    NoMsg = NoMsg
    Jobs = {1, 2}
    Items = {a}
    Importers = {p1}
    Processors = {q1, q2}
    MaxRetries = 0
    RedriveBatch = 1
    MaxFailures = 1
    MaxFaults = 1
SYMMETRY Symmetry
INVARIANTS
    TypeOK
    OutcomeIsTrue
    OneSetPerItem
PROPERTIES
    StaleOwnersAreFenced
    TerminalIsFinal
    EveryFailureIsCounted
    ImplementsLedger
