SPECIFICATION FairSpec
CONSTANTS
    Module = {m1, m2, m3}
    Scripts <- ScriptKind
    WaitThreadComplete = TRUE
INVARIANTS
    TypeOK
    ReadyForNext
PROPERTIES
    ExecutionSpec
    EveryModuleEnds
CHECK_DEADLOCK FALSE
