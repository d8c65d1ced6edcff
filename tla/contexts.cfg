SPECIFICATION Spec
CONSTANTS
    Caller = {c1, c2}
    Run = {r1, r2}
    Key <- AnyKey
    Value <- EmptyOrNot
    Account = "account"
    Output = "output"
    Arguments <- OneArgument
    Texts <- TwoTexts
SYMMETRY Interchangeable
INVARIANTS
    OwnAccountSeen
    OneFile
    AccountsStayPrivate
PROPERTY
    UntouchedUntilStart
