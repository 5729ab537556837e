SPECIFICATION Spec
CONSTANTS
    Nil = Nil
    Strings <- MCStrings
    RawConfigs <- MCRawConfigs
    Direct <- MCDirect
    Cap <- MCCap
INVARIANTS
    RetryTypeOK
    AttemptsAccounted
    BackoffSchedule
    LateOperations
    ConfigUsable
PROPERTIES
    CancelReturns
