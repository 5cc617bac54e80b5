SPECIFICATION Spec
CONSTANTS
    NoCmd = NoCmd
    c1 = c1
    c2 = c2
    Cmds = {c1}
    Size <- AllTwo
    ReadBack <- AsSaved
    Workers = {w1}
    MaxKills = 0
    WritesFail = TRUE
    KillInCleanup = FALSE
INVARIANT BookedIsWhole
