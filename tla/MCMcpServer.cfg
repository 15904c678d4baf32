SPECIFICATION MCSpec
CONSTANTS
    Ids = {1, 2, 3, 4, 5}
    Names <- MCNames
    Files = {"src", "vendor"}
    Vendored = {"vendor"}
    Patterns = {"pars", "main", "none"}
    MaxPath = 3
    MaxImpl = 2
    Depth = 3
    Limit = 2
    MaxMessages = 2
    NoId = 0
    Graphs <- MCGraphs
    Commits <- MCCommits
    Matches <- MCMatches
    Words <- MCMatches
    Liked <- MCLiked
    Prefixed <- MCPrefixed
    Containing <- MCContaining
    Exact <- MCExact
    NameLength <- MCLength
    FindLimit <- MCFindLimit
    Messages <- MCMessages
    Requests <- MCRequests
INVARIANTS
    RequestsAnsweredInOrder
    AnswersAreTrue
    NothingMeansNothing
    TraversalsAreExact
    QueriesAgree
    BackendsAgree
PROPERTIES
    SessionDrains
