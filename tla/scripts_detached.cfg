SPECIFICATION Spec
CONSTANTS
    Module = {m1, m2}
    Scripts <- GoodScripts
    WaitThreadComplete = FALSE
INVARIANT
    ScriptsReturn
