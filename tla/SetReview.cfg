SPECIFICATION Spec
CONSTANTS
    s1 = s1
    rave = rave
    barn = barn
    hall = hall
    NoSet = NoSet
    NoValue = NoValue
    Sets = {s1, s2}
    Workers = {w1}
    Provider <- OwnProvider
    Patches = {"reviewing", "published"}
    FieldCandidates <- Extracted
    Typed <- Retyped
    Years <- RetypedYears
    LeapYears = {2020}
    FirstDay = "1 Jan"
    LeapDay = "29 Feb"
INVARIANTS
    CurationTypeOK
    FieldsFollowDecisions
    EventsSaySomething
PROPERTIES
    TypedValuesAreKept
    MergeSpec
