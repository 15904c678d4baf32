SPECIFICATION Spec
CONSTANTS
    NoNode = NoNode
    NoPath = NoPath
    super = "super()"
    constructor = "constructor"
    initialize = "initialize"
    ClassCase <- MCClassCase
    Controllers <- MCControllers
    Files <- MCFiles
    Segments <- MCSegments
    Paths <- MCPaths
    Upper <- MCUpper
    Probes <- MCProbes
    Keys <- MCKeys
    Alias <- MCAlias
    Projects <- MCProjects
CHECK_DEADLOCK FALSE
INVARIANTS
    MroIsPythons
    SuperFollowsPython
    TiersAreHonest
    OwnMembersAreCalled
    EdgesStartAround
