SPECIFICATION MpmcSpec
CONSTANTS
    Producers = {p1, p2}
    Consumers = {c1, c2}
    Items = 1
    Cap = 2
    DrainFirst = TRUE
PROPERTIES ImplementsChannel AllEof
VIEW View
