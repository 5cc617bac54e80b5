SPECIFICATION MCSpec
CONSTANTS
    Chunks = 2
    MaxFrames = 3
    InCap = 1
    OutCap = 1
    SearchSize <- SmallSearch
    LaySize <- SmallLay
    FrmSize <- SmallFrm
    UrSize <- SmallUr
    NalSize <- SmallNal
    ProbeSize <- SmallProbe
INVARIANTS PartsTyped DrainsOwnChunk ChunkWhole ShipsClosest ScoresItsFrames PictureArrives
           ChunkGetsItsFrames ChunksAreKept AudioExact BytesRight LayoutExact DisplayOrder
           StreamsDecode
PROPERTY Ends
CHECK_DEADLOCK FALSE
