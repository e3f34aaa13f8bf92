SPECIFICATION RunSpec
CONSTANTS
    File = {1, 2}
    NumTU = 2
    MaxJobs = 2
    MaxRounds = 2
    Text = {src, v1}
    src = src
    v1 = v1
    Torn = Torn
    Nothing = Nothing
    Backup = TRUE
    Original <- MCOriginal
INVARIANTS RollbackRestores BackupIsOriginal TornOnlyInRollback ReportsTruthful
PROPERTIES KeepsTxnContract ImplementsAtomicApply WriteFailureRollsBack RunEnds
