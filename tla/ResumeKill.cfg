SPECIFICATION Spec
CONSTANTS
    NoCmd = NoCmd
    c1 = c1
    c2 = c2
    Cmds = {c1, c2}
    Size <- Shorter
    ReadBack <- Misread
    Workers = {w1, w2}
    MaxKills = 2
    WritesFail = TRUE
    KillInCleanup = TRUE
INVARIANTS OnePlace LogOnDisk
PROPERTY Immutable
