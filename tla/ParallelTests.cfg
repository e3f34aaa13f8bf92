SPECIFICATION Spec
CONSTANTS
    Worker = {w1, w2}
    Unit = {u1, u2}
    Breaking = {u1, u2}
    Modes <- MCParallelTests
    Dos = {}
    Crlf = Crlf
    Torn = Torn
    None = None
    MaxVersion = 1
    MaxFails = 0
    MaxRuns = 2
SYMMETRY MCSymmetry
INVARIANTS ParallelAcceptedPassedTests
CHECK_DEADLOCK FALSE
