SPECIFICATION Spec
CONSTANTS
    Worker = {w1, w2}
    Unit = {u1, u2}
    Breaking = {u1}
    Modes <- MCAllModes
    Dos = {u2}
    Crlf = Crlf
    Torn = Torn
    None = None
    MaxVersion = 1
    MaxFails = 1
    MaxRuns = 2
SYMMETRY MCSymmetry
INVARIANTS TreeIsClean ObjectMatchesKey BuildsSeeWholeSources AcceptedPassedTests
CHECK_DEADLOCK FALSE
