SPECIFICATION FaultSpec
CONSTANTS
    File = {1, 2}
    NumTU = 2
    MaxJobs = 2
    MaxRounds = 1
    MaxEdits = 2
    Faults = {"edit", "crash", "ctrl_c_join", "ctrl_c_rollback"}
    Text = {src, v1}
    src = src
    v1 = v1
    Torn = Torn
    Nothing = Nothing
    Backup = FALSE
    Original <- MCOriginal
PROPERTY OverwritesOnlyWhatWasRead
