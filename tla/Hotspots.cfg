SPECIFICATION Spec
CONSTANTS
    f1 = f1
    f2 = f2
    g = g
    src = src
    m1 = m1
    m2 = m2
    Harness = {f1, f2}
    Testable = {g}
    Stem = Stem
    Text = {src, m1, m2}
    Source = src
    Rewrites = {m1, m2}
    Rule <- MCRule
    Nothing = Nothing
    Readings <- MCReadings
    Options <- MCOptions
    NumDraws = 2
    RepairRounds = 1
    MaxRounds = 3
    RunLimit = 3
    HotspotLimit = 2
    MaxCall = 2
    MaxRuns = 2
INVARIANTS OncePerRun NeverWorseThanFloor SpendingBounded
PROPERTIES WritesAreProved CacheHoldsGated
