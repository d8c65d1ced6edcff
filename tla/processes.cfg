SPECIFICATION Spec
CONSTANTS
    Process = {p1, p2}
    Run = {r1, r2}
    SystemUser = postgres
    WaitThreadComplete = FALSE
    PluginSpecs <- LibraryAndScript
    TornTexts <- TornInTwo
    Faults <- AnyFault
SYMMETRY Interchangeable
INVARIANTS
    TaskListSound
PROPERTY
    LedgerSpec
