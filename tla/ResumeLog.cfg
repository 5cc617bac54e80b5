SPECIFICATION Spec
CONSTANTS
    NoCmd = NoCmd
    c1 = c1
    c2 = c2
    Cmds = {c1}
    Size <- AllTwo
    ReadBack <- AsSaved
    Workers = {w1}
    MaxKills = 2
    WritesFail = FALSE
    KillInCleanup = FALSE
INVARIANT KeepsFinished
