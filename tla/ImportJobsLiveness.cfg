SPECIFICATION FairSpec
CONSTANTS
    NoItem = NoItem
    NoMsg = NoMsg
    Jobs = {1}
    Items = {a}
    Importers = {p1}
    Processors = {q1}
    MaxRetries = 1
    RedriveBatch = 1
    MaxFailures = 2
    MaxFaults = 2
PROPERTIES
    EveryJobSettles
