SPECIFICATION Spec
CONSTANTS
    Project = {p1, p2}
    Tag = Tag
    Base = Base
    Other = Other
    None = None
    Torn = Torn
    Asked = {None, Other}
    UserRepulls = FALSE
    MaxCommands = 3
    MaxCrashes = 1
SYMMETRY MCSymmetry
INVARIANTS InstallTypeOK ReadyIsTrue FallbackIsNotIntent
PROPERTIES OnlyOursRemoved OllamaClaimKept
CHECK_DEADLOCK FALSE
