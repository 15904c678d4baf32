SPECIFICATION SchemaSpec
CONSTANTS
    Openers = {p1}
    Origins = {"v1", "v2", "v3"}
    MayCrash = FALSE

INVARIANTS
    MigrationSucceeds
