SPECIFICATION MCSpec
CONSTANTS
    Workers = {w1, w2, w3}
    MutexThreads = {w1, w2, w3, w4}
    TqEncoders = {w1}
    TqMetrics = {w2}
    LibSize <- SmallLib
    TqSize <- SearchTq
    MoreSize <- MoreTq
    FullSize <- FullTq
    N = 3
    WordBits = 2
INVARIANTS PartsTyped OneOwner DecoderGetsOn SleepersCovered FileExact BookedIsBest AllBooked
PROPERTIES BuffersReturn SomebodyGetsIn ChunksEnd
VIEW View
CHECK_DEADLOCK FALSE
