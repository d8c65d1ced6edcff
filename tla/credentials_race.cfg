SPECIFICATION Spec
CONSTANTS
    Process = {p1, p2}
    Run = {r1, r2}
    SystemUser = postgres
    WaitThreadComplete = TRUE
    PluginSpecs <- OnlyLibrary
    TornTexts <- NoTorn
    Faults <- NoFaults
INVARIANT
    CredentialsOpenDatabase
