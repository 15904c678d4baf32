SPECIFICATION Spec
CONSTANTS
    Procs = {p1}
    n1 = n1
    n2 = n2
    n3 = n3
    n4 = n4
    f1 = f1
    f2 = f2
    t1 = t1
    t2 = t2
    h1 = h1
    h2 = h2
    Ids <- MCIds
    Files <- MCFiles
    Texts = {t1, t2}
    Hashes = {h1, h2}
    Kinds = {"CONTAINS", "CALLS"}
    Lines = {1, 2}
    FileOf <- MCFileOf
    LineOf <- MCLineOf
    Graphs <- MCGraphs
    NoId = NoId
    NoHash = NoHash
    NoProc = NoProc
    MaxOps = 2
CHECK_DEADLOCK FALSE
PROPERTIES
    SaveKeepsParents
