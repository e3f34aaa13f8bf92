SPECIFICATION Spec
CONSTANTS
    c1 = c1
    c2 = c2
    Command = {c1, c2}
    Server = {s1, s2}
    None = None
    Torn = Torn
    Gain <- MCGain
    MaxSignals = 1
INVARIANTS DaemonTypeOK RunsOnce FloorsKept OneDaemon
PROPERTIES HighScoreRises CommandsEnd
CHECK_DEADLOCK FALSE
