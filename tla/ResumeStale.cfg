SPECIFICATION Spec
CONSTANTS
    NoCmd = NoCmd
    c1 = c1
    c2 = c2
    Cmds = {c1, c2}
    Size <- Shorter
    ReadBack <- AsSaved
    Workers = {w1, w2, w3}
    MaxKills = 1
    WritesFail = FALSE
    KillInCleanup = FALSE
INVARIANT OutputExact
