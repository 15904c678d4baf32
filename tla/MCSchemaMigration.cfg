SPECIFICATION SchemaSpec
CONSTANTS
    Openers = {p1, p2}
    Origins = {"fresh", "v0", "v1", "v2", "v3", "half", "v4"}
    MayCrash = TRUE
SYMMETRY OpenerSymmetry
INVARIANTS
    StampMeansColumns
    OpenedIsUsable
