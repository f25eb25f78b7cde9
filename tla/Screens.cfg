SPECIFICATION ScreensSpec
CONSTANTS
    Payments = {p1, p2, p3}
    Mandated = {p1, p2}
    Sizes = {1}
    PageSize = 2
    ScanPages = 2
    Window = 1
    TaskLimit = 2
    MaxMovements = 4
SYMMETRY Alike
INVARIANT ScreensTellTheLedger
CHECK_DEADLOCK FALSE
