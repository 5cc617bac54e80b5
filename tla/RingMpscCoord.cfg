SPECIFICATION MpscSpec
CONSTANTS
    Producers = {p1, p2}
    Consumers = {c1}
    Items = 2
    Cap = 2
    DrainFirst = TRUE
PROPERTIES ImplementsChannel AllReceived
VIEW View
