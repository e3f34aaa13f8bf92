SPECIFICATION Spec
CONSTANTS
    Sources <- MCSources
    Filters <- MCFilters
    Key = {k1, k2}
    Val = {0, 1, 2}
    None = None
INVARIANTS FusedSame CandidatesGetProposals
PROPERTIES Settles
CHECK_DEADLOCK FALSE
