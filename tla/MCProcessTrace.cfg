SPECIFICATION Spec
CONSTANTS
    a = a
    b = b
    c = c
    d = d
    e = e
    f = f
    r1 = r1
    r2 = r2
    Symbols = {a, b, c, d, e, f}
    Routes = {r1, r2}
    CallGraphs <- MCCallGraphs
    Handlers <- MCHandlers
    Mains = {a, b}
    MaxDepth = 3
    MaxSteps = 5
    MaxRuns = 2
    NoProcess = NoProcess
CHECK_DEADLOCK FALSE
INVARIANTS
    StepsAreNumbered
    StepsAreCalled
    ProcessesAreComplete
    NearerStepsFirst
PROPERTIES
    RerunAddsNothing
