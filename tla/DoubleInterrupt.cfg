SPECIFICATION FaultSpec
CONSTANTS
    File = {1, 2}
    NumTU = 2
    MaxJobs = 2
    MaxRounds = 1
    MaxEdits = 0
    Faults = {"ctrl_c_join"}
    Text = {src, v1}
    src = src
    v1 = v1
    Torn = Torn
    Nothing = Nothing
    Backup = FALSE
    Original <- MCOriginal
INVARIANT NoHalfEditedTree
