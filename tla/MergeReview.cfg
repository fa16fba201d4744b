SPECIFICATION MergeSpec
CONSTANTS
    NoSet = NoSet
    Sets = {s1, s2, s3}
    Workers = {w1, w2}
    Provider <- OwnProvider
    Patches = {"published"}
SYMMETRY Symmetry
INVARIANTS
    TypeOK
    LinksFollowMerges
    MergesAreDecided
    NeverAutoPublished
    NoPairIsOverlooked
