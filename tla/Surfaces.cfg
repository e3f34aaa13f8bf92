SPECIFICATION Spec
CONSTANTS
    Func = {"f", "g"}
    Sites <- MCSites
    New <- MCNew
    Context = 1
    None = None
    Original <- MCOriginal
    MaxRuns = 2
    MaxEdits = 1
    MaxLines = 9
    Policies = {"none", "any"}
    PageSize = 1
    MaxPushes = 2
    MaxHuman = 1
INVARIANTS SurfacesTypeOK OneSummary CheckTells
PROPERTIES AppliesInPlace
CHECK_DEADLOCK FALSE
