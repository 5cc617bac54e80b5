SPECIFICATION Spec
CONSTANTS
    NoCmd = NoCmd
    c1 = c1
    c2 = c2
    Cmds = {c1, c2}
    Size <- AllThree
    ReadBack <- AsSaved
    Workers = {w1, w2}
    MaxKills = 2
    WritesFail = FALSE
    KillInCleanup = FALSE
INVARIANTS BookedIsWhole OutputExact
PROPERTY Finishes
