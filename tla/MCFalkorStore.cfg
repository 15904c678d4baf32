SPECIFICATION MCSpec
CONSTANTS
    Clients = {c1, c2}
    Ids = {1, 2, 3}
    src = src
    lib = lib
    none = none
    Files = {src, lib}
    FileOf <- MCFileOf
    LineOf <- MCLineOf
    NoId = none
    EdgeKinds <- MCKinds
    Indexes <- MCIndexes
    Graphs <- MCGraphs
    NODE_BATCH = 2
    EDGE_BATCH = 1
    MAX_RETRIES = 1
    MaxOps = 2
\* After MaxOps operations the clients rest.
CHECK_DEADLOCK FALSE
INVARIANTS
    LoneOperationsAreExact
    HashesVouchForFiles
PROPERTIES
    OperationsReturn
