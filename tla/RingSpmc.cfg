SPECIFICATION RingSpec
CONSTANTS
    Producers = {p1}
    Consumers = {c1, c2}
    Items = 3
    Cap = 2
    DrainFirst = FALSE
INVARIANTS SlotExclusive ReadsItsItem WaitersExact WorkConserving
PROPERTIES DrainedIsChannel StreamEnds
VIEW RingView
