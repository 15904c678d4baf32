SPECIFICATION Spec
CONSTANTS
    Files = {a, b}
    Names <- MCNames
    Lines = {1, 2}
    Contents <- MCContents
    NoHash = NoHash
    Absent = Absent
    LastSegment <- MCLastSegment
    AlwaysResolve = TRUE
    MaxEdits = 2
    MaxScans = 3
SYMMETRY FileSymmetry
CHECK_DEADLOCK FALSE
INVARIANTS
    TypeOK
    GraphIsWellFormed
    HashesDescribeSymbols
    UpdateEqualsRescan
    FreshCallsAreResolved
    UpdateKeepsOtherEdges
