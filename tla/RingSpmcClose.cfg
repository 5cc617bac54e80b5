SPECIFICATION SpmcSpec
CONSTANTS
    Producers = {p1}
    Consumers = {c1}
    Items = 3
    Cap = 2
    DrainFirst = FALSE
INVARIANT AllDelivered
VIEW View
