\* drop_oldest_push against try_pop on a ring of 4; with try_push the ring wraps three times.
CONSTANTS
    Cap = 4
    MaxItems = 7
    MoveEmpties = TRUE
    StreamCount = 2
    InflightMax = 2
    RawCap = 2
    PlotsCap = 1
    MaxCpis = 3
    MaxFailures = 1
    HeaderSize = 2
    SourceOffset = 1
    TypeOffset = 1
    MaxPayload = 9
    HeartbeatSize = 2
    LocalId = 1
    ExpectedSource = 17
    Senders = {1, 2}
    cpi_frags = 3
    reorder_depth = 2
    drop = TRUE
    Body = 1
    SpecificSize = 1
    SnapshotSize = 1
    CrcSize = 1
    LenSpan = 16
    EmuSpan = 32
    MaxBatches = 2
    MaxBeats = 2
    MaxSendErrors = 1
    f1 = f1
    f2 = f2
    f3 = f3
    f4 = f4
    FrameKeys = {f1, f2, f3, f4}
    NoFrame = NoFrame
    Counter <- MCCounter
    Span = 8
    OrderWindow = 2
    OpenFrames = 1
    MaxMoves = 3
    ConfirmHits = 3
    CoastAfter = 2
    LostAfter = 3
    FullHits = 3
    MaxPlots = 2
    MaxTracks = 3
    Files <- MCFiles
    MaxEdits = 2

SPECIFICATION LinksSpec
INVARIANTS
    SafeUntilLapped
    CpisAccounted
    ReorderBounded
    NumberDeliveredOnce
    ConfirmedEarned
    FusionKeepsBest
    FacesApart
    AppliedIsCurrent
PROPERTIES
    TryImplementsQueue
    InOrderUntilLapped
    StreamsServed
    DroppedIsSettled

\* The dispatcher may be stopped, a face is flushed, and bounds end the other parts.
CHECK_DEADLOCK FALSE
