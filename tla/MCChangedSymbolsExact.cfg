SPECIFICATION Spec
CONSTANTS
    Files = {"lib.py", "api/lib.py"}
    Stray = "stray"
    Names = {"Class", "method", "main"}
    Callable = {"method", "main"}
    MaxEdits = 2
    MaxScans = 1
    First <- MCFirst
    Within <- MCWithin
    CallersOf <- MCCallers
INVARIANTS
    ReportIsExact
